---- MODULE Spec2Model ----
(***************************************************************************)
(* Model of roam-cli's batch builder (internal/api/batch.go) and of the    *)
(* cloud transport client's request/retry machinery                        *)
(* (internal/api/client.go).                                               *)
(*                                                                         *)
(* UIDs are modelled as sequences of one-character strings so that the     *)
(* formatting (fmt.Sprintf "%d") and scanning (fmt.Sscanf "%d") the        *)
(* builder performs on them are computed, not assumed.  A value of Go type *)
(* interface{} that is either an int or a string is a tagged record.       *)
(***************************************************************************)
EXTENDS Integers, Sequences, FiniteSets, TLC

\* ---------------------------------------------------------------------
\* Bounds
\* ---------------------------------------------------------------------

\* Largest number of mutating builder calls on one builder.
MaxActions == 3

\* Largest number of calls made on one cloud client.
MaxCalls == 2

\* Largest number of peer redirects followed within one cloud call.
MaxRedirects == 2

\* Largest number of builder calls before a batch is handed to a client.
MaxBatch == 2

\* ---------------------------------------------------------------------
\* Values
\* ---------------------------------------------------------------------

\* interface{} holding a Go int.
IntVal(n) == [kind |-> "int", n |-> n, s |-> <<>>]

\* interface{} holding a Go string.
StrVal(str) == [kind |-> "str", n |-> 0, s |-> str]

\* m[k] = v on a Go map.
Put(m, k, v) == [x \in (DOMAIN m) \cup {k} |-> IF x = k THEN v ELSE m[x]]

\* ---------------------------------------------------------------------
\* fmt.Sprintf("%d", n) and fmt.Sscanf(s, "%d", &n)
\* ---------------------------------------------------------------------

DigitChars == <<"0", "1", "2", "3", "4", "5", "6", "7", "8", "9">>

IsDigit(c) == \E d \in 1..10 : DigitChars[d] = c

DigitVal(c) == (CHOOSE d \in 1..10 : DigitChars[d] = c) - 1

RECURSIVE NatToStr(_)
NatToStr(n) ==
    IF n < 10 THEN <<DigitChars[n + 1]>>
    ELSE NatToStr(n \div 10) \o <<DigitChars[(n % 10) + 1]>>

\* fmt.Sprintf("%d", n)
SprintfD(n) == IF n < 0 THEN <<"-">> \o NatToStr(0 - n) ELSE NatToStr(n)

\* ss.SkipSpace: drop leading blanks.
RECURSIVE SkipSpace(_)
SkipSpace(str) ==
    IF str # <<>> /\ Head(str) = " " THEN SkipSpace(Tail(str)) ELSE str

\* ss.scanNumber: the longest prefix of decimal digits.
RECURSIVE DigitPrefix(_)
DigitPrefix(str) ==
    IF str # <<>> /\ IsDigit(Head(str))
    THEN <<Head(str)>> \o DigitPrefix(Tail(str))
    ELSE <<>>

RECURSIVE DecimalValue(_)
DecimalValue(ds) ==
    IF ds = <<>> THEN 0
    ELSE 10 * DecimalValue(SubSeq(ds, 1, Len(ds) - 1)) + DigitVal(ds[Len(ds)])

\* fmt.Sscanf(str, "%d", &n): blanks are skipped, an optional sign is
\* accepted, at least one digit is required, and input left after the
\* digits is not examined.  ok stands for (err == nil && n == 1).
\* The strings of the model are far shorter than the 19 digits at which
\* strconv.ParseInt reports a range error.
SscanfD(str) ==
    LET t == SkipSpace(str)
        signed == t # <<>> /\ Head(t) \in {"+", "-"}
        rest == IF signed THEN Tail(t) ELSE t
        ds == DigitPrefix(rest)
        mag == DecimalValue(ds)
    IN  IF ds = <<>> THEN [ok |-> FALSE, n |-> 0]
        ELSE [ok |-> TRUE,
              n |-> IF signed /\ Head(t) = "-" THEN 0 - mag ELSE mag]

\* ---------------------------------------------------------------------
\* Inputs of the builder calls
\* ---------------------------------------------------------------------

\* opts.UID of CreatePage / CreateBlock: none, or a caller-supplied UID.
CreateUIDs == { <<>>, <<"a", "b">> }

\* UID strings a caller passes as the uid of an update, move or delete:
\* an ordinary UID, the decimal string of a tempid, and a UID beginning
\* with '-' and a digit (Roam UIDs may contain '-' and '_').
RefUIDs == { <<"a", "b">>, <<"-", "1">>, <<"-", "1", "a">> }

\* Location.ParentUID values: the above and the second tempid.
ParentUIDs == RefUIDs \cup { <<"-", "2">> }

MkLocation(p, t, d, o) ==
    [ParentUID |-> p, PageTitle |-> t, DailyNoteDate |-> d, Order |-> o]

\* Location values: each addressing mode alone.
Locations ==
    { MkLocation(p, "", "", "last") : p \in ParentUIDs }
    \cup { MkLocation(<<>>, "T", "", "last"),
            MkLocation(<<>>, "", "01-02-2026", "last") }

\* Locations a block is moved to.
MoveLocations ==
    { MkLocation(<<"-", "1">>, "", "", "last"), MkLocation(<<>>, "T", "", "last") }

\* ---------------------------------------------------------------------
\* State
\* ---------------------------------------------------------------------

VARIABLES
    actions,        \* BatchBuilder.actions
    nextTempID,     \* BatchBuilder.nextTempID
    calls,          \* the mutating calls made on the builder, with results
    ret,            \* what the most recent builder call returned
    redirectCache,  \* Client.redirectCache
    pc,             \* position of the caller inside a cloud call
    cur,            \* the cloud call in progress: method, path, body
    attempt,        \* callWithRetry's loop variable
    backoff,        \* callWithRetry's backoff, in seconds
    requests,       \* HTTP requests sent during the current cloud call
    outcomes,       \* what each of those requests met
    sleeps,         \* durations slept during the current cloud call
    result,         \* what the most recent cloud call returned
    ncalls,         \* number of cloud calls started on the client
    parseIn,        \* the create result handed to parseLocalCreateUID
    parseOut,       \* what parseLocalCreateUID returned for it
    portFile,       \* the port file ~/.roam-api-port as the local client finds it
    lpc,            \* position of the caller inside a local-client method
    lop,            \* the local-client method in progress, with its locals
    lreqs,          \* HTTP requests sent to the Local API by that method
    louts,          \* what each of those requests met
    lresult,        \* what the most recent local-client method returned
    cmdPc,          \* position inside a command's RunE
    cmd,            \* the command in progress, with its flags
    cmdLog,         \* the client calls and waits the command has made
    cmdResult,      \* what the command returned
    gpc,            \* position of each of two concurrent callers of one client
    gop,            \* the locals of each of them
    glog,           \* the requests the two have sent, in order
    graph           \* the pages of the graph, as the Roam desktop app holds them

builderVars == <<actions, nextTempID, calls, ret>>

cloudVars == <<redirectCache, pc, cur, attempt, backoff, requests, outcomes,
               sleeps, result, ncalls>>

parseVars == <<parseIn, parseOut>>

localVars == <<portFile, lpc, lop, lreqs, louts, lresult>>

cmdVars == <<cmdPc, cmd, cmdLog, cmdResult>>

conVars == <<gpc, gop, glog, graph>>

\* What neither the builder nor the cloud client touches.
extVars == <<parseIn, parseOut, portFile, lpc, lop, lreqs, louts, lresult,
             cmdPc, cmd, cmdLog, cmdResult, gpc, gop, glog, graph>>

vars == <<actions, nextTempID, calls, ret, redirectCache, pc, cur, attempt,
          backoff, requests, outcomes, sleeps, result, ncalls,
          parseIn, parseOut, portFile, lpc, lop, lreqs, louts, lresult,
          cmdPc, cmd, cmdLog, cmdResult, gpc, gop, glog, graph>>

\* ---------------------------------------------------------------------
\* BatchBuilder
\* ---------------------------------------------------------------------

\* parseUID with the scanned value off by one.
parseUID_offByOne(uid) ==
    LET r == SscanfD(uid)
    IN  IF r.ok /\ r.n < 0 THEN IntVal(r.n - 1) ELSE StrVal(uid)

\* parseUID: tempid strings become integers, other UIDs stay strings.
parseUID(uid) ==
    LET r == SscanfD(uid)
    IN  IF r.ok /\ r.n < 0 THEN IntVal(r.n) ELSE StrVal(uid)

\* buildLocation
buildLocation(loc) ==
    LET m == [order |-> loc.Order]
    IN  IF loc.ParentUID # <<>> THEN Put(m, "parent-uid", parseUID(loc.ParentUID))
        ELSE IF loc.DailyNoteDate # ""
             THEN Put(m, "page-title", [dailyNotePage |-> loc.DailyNoteDate])
        ELSE IF loc.PageTitle # "" THEN Put(m, "page-title", loc.PageTitle)
        ELSE m

\* BlockOptions.ApplyToMap, for the option fields of the model (UID, Open).
ApplyToMap(opts, m) ==
    LET m1 == IF opts.UID # <<>> /\ "uid" \notin DOMAIN m
              THEN Put(m, "uid", StrVal(opts.UID)) ELSE m
    IN  IF opts.Open # "nil" THEN Put(m1, "open", opts.Open) ELSE m1

\* allocateTempID decrementing by two.
allocateTempID_skip(next) == next - 2

\* The tempid counter after allocateTempID.
allocateTempID(next) == next - 1

LogCall(op, uid, parent, r) ==
    Append(calls, [op |-> op, uid |-> uid, parent |-> parent, ret |-> r])

CreatePage(opts) ==
    /\ Len(calls) < MaxActions
    /\ LET tempID == nextTempID
           uidValue == IF opts.UID # <<>> THEN StrVal(opts.UID) ELSE IntVal(tempID)
           uidRef == IF opts.UID # <<>> THEN opts.UID ELSE SprintfD(tempID)
           page0 == [uid |-> uidValue, title |-> opts.Title]
           page == IF opts.ChildrenViewType # ""
                   THEN Put(page0, "children-view-type", opts.ChildrenViewType)
                   ELSE page0
       IN  /\ nextTempID' = allocateTempID(nextTempID)
           /\ actions' = Append(actions, [action |-> "create-page", page |-> page])
           /\ calls' = LogCall("CreatePage", opts.UID, <<>>, uidRef)
           /\ ret' = [op |-> "CreatePage", val |-> uidRef]
    /\ UNCHANGED <<cloudVars, extVars>>

CreateBlock(loc, opts) ==
    /\ Len(calls) < MaxActions
    /\ LET tempID == nextTempID
           uidValue == IF opts.UID # <<>> THEN StrVal(opts.UID) ELSE IntVal(tempID)
           uidRef == IF opts.UID # <<>> THEN opts.UID ELSE SprintfD(tempID)
           blockMap == ApplyToMap(opts, [uid |-> uidValue, string |-> opts.Content])
       IN  /\ nextTempID' = allocateTempID(nextTempID)
           /\ actions' = Append(actions, [action |-> "create-block",
                                          location |-> buildLocation(loc),
                                          block |-> blockMap])
           /\ calls' = LogCall("CreateBlock", opts.UID, loc.ParentUID, uidRef)
           /\ ret' = [op |-> "CreateBlock", val |-> uidRef]
    /\ UNCHANGED <<cloudVars, extVars>>

UpdateBlock(uid, opts) ==
    /\ Len(calls) < MaxActions
    /\ LET m0 == [uid |-> parseUID(uid)]
           m1 == IF opts.Content # "" THEN Put(m0, "string", opts.Content) ELSE m0
           blockMap == ApplyToMap(opts, m1)
       IN  /\ actions' = Append(actions, [action |-> "update-block", block |-> blockMap])
           /\ calls' = LogCall("UpdateBlock", uid, <<>>, <<>>)
           /\ ret' = [op |-> "UpdateBlock", val |-> <<>>]
           /\ UNCHANGED nextTempID
    /\ UNCHANGED <<cloudVars, extVars>>

UpdatePage(uid, opts) ==
    /\ Len(calls) < MaxActions
    /\ LET m0 == [uid |-> parseUID(uid)]
           m1 == IF opts.Title # "" THEN Put(m0, "title", opts.Title) ELSE m0
           pageMap == IF opts.ChildrenViewType # ""
                      THEN Put(m1, "children-view-type", opts.ChildrenViewType)
                      ELSE m1
       IN  /\ actions' = Append(actions, [action |-> "update-page", page |-> pageMap])
           /\ calls' = LogCall("UpdatePage", uid, <<>>, <<>>)
           /\ ret' = [op |-> "UpdatePage", val |-> <<>>]
           /\ UNCHANGED nextTempID
    /\ UNCHANGED <<cloudVars, extVars>>

MoveBlock(uid, loc) ==
    /\ Len(calls) < MaxActions
    /\ actions' = Append(actions, [action |-> "move-block",
                                   location |-> buildLocation(loc),
                                   block |-> [uid |-> parseUID(uid)]])
    /\ calls' = LogCall("MoveBlock", uid, loc.ParentUID, <<>>)
    /\ ret' = [op |-> "MoveBlock", val |-> <<>>]
    /\ UNCHANGED nextTempID
    /\ UNCHANGED <<cloudVars, extVars>>

DeleteBlock(uid) ==
    /\ Len(calls) < MaxActions
    /\ actions' = Append(actions, [action |-> "delete-block",
                                   block |-> [uid |-> parseUID(uid)]])
    /\ calls' = LogCall("DeleteBlock", uid, <<>>, <<>>)
    /\ ret' = [op |-> "DeleteBlock", val |-> <<>>]
    /\ UNCHANGED nextTempID
    /\ UNCHANGED <<cloudVars, extVars>>

DeletePage(uid) ==
    /\ Len(calls) < MaxActions
    /\ actions' = Append(actions, [action |-> "delete-page",
                                   page |-> [uid |-> parseUID(uid)]])
    /\ calls' = LogCall("DeletePage", uid, <<>>, <<>>)
    /\ ret' = [op |-> "DeletePage", val |-> <<>>]
    /\ UNCHANGED nextTempID
    /\ UNCHANGED <<cloudVars, extVars>>

\* Build that hands the list over and starts a new one.
Build_reset ==
    /\ ret' = [op |-> "Build", val |-> actions]
    /\ actions' = <<>>
    /\ UNCHANGED <<nextTempID, calls>>
    /\ UNCHANGED <<cloudVars, extVars>>

Build ==
    /\ ret' = [op |-> "Build", val |-> actions]
    /\ UNCHANGED <<actions, nextTempID, calls>>
    /\ UNCHANGED <<cloudVars, extVars>>

\* ---------------------------------------------------------------------
\* Cloud client
\* ---------------------------------------------------------------------

\* MaxRetries for rate limit errors.
MaxRetries == 3

\* InitialBackoff for rate limit retries, in seconds.
InitialBackoff == 10

DefaultBaseURL == <<"https://api.roamresearch.com">>

\* Client.graphName
GraphName == "g"

\* What one HTTP exchange can meet: a transport failure of httpClient.Do,
\* or a response.  A redirect response carries a Location header: absent,
\* not matching the peer pattern, or naming a peer and a port.
NoLocation == [kind |-> "none", peer |-> "", port |-> ""]

PeerLocation(peer, port) == [kind |-> "peer", peer |-> peer, port |-> port]

Outcomes ==
    { [kind |-> "transport", status |-> 0, location |-> NoLocation, body |-> ""] }
    \cup { [kind |-> "response", status |-> st, location |-> NoLocation, body |-> "b"] :
             st \in {200, 400, 401, 429, 500, 503} }
    \cup { [kind |-> "response", status |-> 307, location |-> l, body |-> ""] :
             l \in { NoLocation,
                     [kind |-> "unparsable", peer |-> "", port |-> ""],
                     PeerLocation("peer-1", "3001") } }
    \cup { [kind |-> "response", status |-> 308,
            location |-> PeerLocation("peer-2", "3002"), body |-> ""] }

IsRedirect(o) == o.kind = "response" /\ o.status \in {307, 308}

\* A redirect that callCtx follows.
IsFollowed(o) == IsRedirect(o) /\ o.location.kind = "peer"

Ok(body) == [err |-> "none", msg |-> "", body |-> body]

Err(kind, msg) == [err |-> kind, msg |-> msg, body |-> ""]

\* callCtx with the 400 and 500 cases exchanged.
callCtxResult_swapped(o) ==
    IF o.kind = "transport" THEN Err("generic", <<"failed to send request">>)
    ELSE IF IsRedirect(o)
         THEN IF o.location.kind = "none"
              THEN Err("generic", <<"redirect without Location header">>)
              ELSE Err("generic", <<"could not parse redirect URL">>)
    ELSE IF o.status = 200 THEN [err |-> "none", msg |-> "", body |-> o.body]
    ELSE IF o.status = 401 THEN Err("Authentication", <<"invalid API token">>)
    ELSE IF o.status = 429 THEN Err("RateLimit", <<"rate limit exceeded: ", o.body>>)
    ELSE IF o.status = 500 THEN Err("Validation", <<"invalid request: ", o.body>>)
    ELSE IF o.status = 400 THEN Err("generic", <<"server error: ", o.body>>)
    ELSE Err("generic", <<"API error (status ", o.status, "): ", o.body>>)

\* No cloud call has returned yet.
Pending == [err |-> "pending", msg |-> "", body |-> ""]

\* callCtx: what the call returns for an exchange that is not a followed
\* redirect.
callCtxResult(o) ==
    IF o.kind = "transport" THEN Err("generic", <<"failed to send request">>)
    ELSE IF IsRedirect(o)
         THEN IF o.location.kind = "none"
              THEN Err("generic", <<"redirect without Location header">>)
              ELSE Err("generic", <<"could not parse redirect URL">>)
    ELSE IF o.status = 200 THEN Ok(o.body)
    ELSE IF o.status = 401 THEN Err("Authentication", <<"invalid API token">>)
    ELSE IF o.status = 429 THEN Err("RateLimit", <<"rate limit exceeded: ", o.body>>)
    ELSE IF o.status = 400 THEN Err("Validation", <<"invalid request: ", o.body>>)
    ELSE IF o.status = 500 THEN Err("generic", <<"server error: ", o.body>>)
    ELSE Err("generic", <<"API error (status ", o.status, "): ", o.body>>)

\* callCtx: the URL written to the redirect cache.
redirectURL(loc) == <<"https://", loc.peer, ".api.roamresearch.com:", loc.port>>

\* callCtx never consulting the redirect cache.
baseURL_noCache(cache) == DefaultBaseURL

\* callCtx: the base URL of a request.
baseURL(cache) ==
    IF GraphName \in DOMAIN cache THEN cache[GraphName] ELSE DefaultBaseURL

\* The retry test, one attempt short.
CanRetry_oneShort(att) == att < MaxRetries - 1

\* callWithRetry: whether another attempt follows a rate-limited one
\* (attempt + 1 <= MaxRetries).
CanRetry(att) == att < MaxRetries

\* Retrying every error that is not an authentication or validation error.
IsRateLimitError_generic(r) == r.err \in {"RateLimit", "generic"}

\* callWithRetry: only rate limit errors are retried.
IsRateLimitError(r) == r.err = "RateLimit"

GraphPath(op) == <<"/api/graph/", GraphName, "/", op>>

\* Client.Write without the copy of data into the body.
WriteRequest_noData(action, data) ==
    [path |-> GraphPath("write"), body |-> [action |-> action]]

\* Client.Write: the request path and body.
WriteRequest(action, data) ==
    [path |-> GraphPath("write"), body |-> Put(data, "action", action)]

NrFollowed(os) == Cardinality({ i \in 1..Len(os) : IsFollowed(os[i]) })

\* Entry into callWithRetry from one of the client's methods.
StartCall(method, req) ==
    /\ pc \in {"idle", "done"}
    /\ ncalls < MaxCalls
    /\ ncalls' = ncalls + 1
    /\ cur' = [method |-> method, path |-> req.path, body |-> req.body]
    /\ attempt' = 0
    /\ backoff' = InitialBackoff
    /\ requests' = <<>>
    /\ outcomes' = <<>>
    /\ sleeps' = <<>>
    /\ result' = Pending
    /\ pc' = "call"
    /\ UNCHANGED redirectCache
    /\ UNCHANGED <<builderVars, extVars>>

Query(query) ==
    StartCall("Query", [path |-> GraphPath("q"), body |-> [query |-> query]])

Pull(eid, selector) ==
    StartCall("Pull", [path |-> GraphPath("pull"),
                       body |-> [eid |-> eid, selector |-> selector]])

PullMany(eids, selector) ==
    StartCall("PullMany", [path |-> GraphPath("pull-many"),
                           body |-> [eids |-> eids, selector |-> selector]])

ClientDeleteBlock(uid) ==
    StartCall("DeleteBlock", WriteRequest("delete-block", [block |-> [uid |-> uid]]))

ExecuteBatch ==
    StartCall("ExecuteBatch", WriteRequest("batch-actions", [actions |-> actions]))

\* One HTTP exchange of callCtx, and what callCtx and callWithRetry do
\* with its outcome.
Exchange(o) ==
    /\ pc = "call"
    /\ requests' = Append(requests,
                          [url |-> baseURL(redirectCache), path |-> cur.path,
                           body |-> cur.body])
    /\ outcomes' = Append(outcomes, o)
    /\ IF IsFollowed(o)
       THEN /\ NrFollowed(outcomes) < MaxRedirects
            /\ redirectCache' = Put(redirectCache, GraphName, redirectURL(o.location))
            /\ UNCHANGED <<pc, attempt, result>>
       ELSE /\ UNCHANGED redirectCache
            /\ LET r == callCtxResult(o)
               IN  IF r.err = "none" \/ ~IsRateLimitError(r)
                   THEN /\ result' = r
                        /\ pc' = "done"
                        /\ UNCHANGED attempt
                   ELSE IF CanRetry(attempt)
                   THEN /\ pc' = "sleep"
                        /\ UNCHANGED <<attempt, result>>
                   ELSE /\ attempt' = attempt + 1
                        /\ result' = Err("RateLimit", <<"rate limit exceeded after retries">>)
                        /\ pc' = "done"
    /\ UNCHANGED <<cur, backoff, sleeps, ncalls>>
    /\ UNCHANGED <<builderVars, extVars>>

\* The retry sleep without the doubling of the backoff.
Sleep_noDoubling ==
    /\ pc = "sleep"
    /\ sleeps' = Append(sleeps, backoff)
    /\ attempt' = attempt + 1
    /\ pc' = "call"
    /\ UNCHANGED <<redirectCache, cur, backoff, requests, outcomes, result, ncalls>>
    /\ UNCHANGED <<builderVars, extVars>>

\* callWithRetry: time.Sleep(backoff); backoff *= 2; attempt++.
Sleep ==
    /\ pc = "sleep"
    /\ sleeps' = Append(sleeps, backoff)
    /\ backoff' = backoff * 2
    /\ attempt' = attempt + 1
    /\ pc' = "call"
    /\ UNCHANGED <<redirectCache, cur, requests, outcomes, result, ncalls>>
    /\ UNCHANGED <<builderVars, extVars>>

\* NewBatchBuilder, NewClient
\* The builder and the cloud client after construction.
InitCore ==
    /\ actions = <<>>
    /\ nextTempID = -1
    /\ calls = <<>>
    /\ ret = [op |-> "NewBatchBuilder", val |-> <<>>]
    /\ redirectCache = <<>>
    /\ pc = "idle"
    /\ cur = [method |-> "", path |-> <<>>, body |-> <<>>]
    /\ attempt = 0
    /\ backoff = 0
    /\ requests = <<>>
    /\ outcomes = <<>>
    /\ sleeps = <<>>
    /\ result = Pending
    /\ ncalls = 0

PageOptionsSet ==
    { [Title |-> "T", UID |-> u, ChildrenViewType |-> ""] : u \in CreateUIDs }

MkBlockOptions(c, u) == [UID |-> u, Open |-> "nil", Content |-> c]

\* (Location, BlockOptions) pairs of CreateBlock: every location without a
\* caller-supplied UID, and one with.
BlockCreateInputs ==
    { <<loc, MkBlockOptions("c", <<>>)>> : loc \in Locations }
    \cup { <<MkLocation(<<"a", "b">>, "", "", "last"), MkBlockOptions("c", <<"a", "b">>)>> }

\* (uid, BlockOptions) pairs of UpdateBlock: with content, and one without.
BlockUpdateInputs ==
    { <<uid, MkBlockOptions("c", <<>>)>> : uid \in RefUIDs }
    \cup { <<<<"a", "b">>, [UID |-> <<>>, Open |-> "true", Content |-> ""]>> }

PageUpdateOptions ==
    { [Title |-> "T", UID |-> <<>>, ChildrenViewType |-> ""] }

(***************************************************************************)
(* JSON documents as the Local API returns them (json.RawMessage).  A      *)
(* document is invalid, absent, null, a number, a string, an array or an   *)
(* object; objects are functions from their keys to documents, arrays are  *)
(* sequences of documents and strings are sequences of characters.         *)
(***************************************************************************)
JInvalid == [t |-> "invalid", s |-> <<>>, o |-> <<>>]

JAbsent == [t |-> "absent", s |-> <<>>, o |-> <<>>]

JNull == [t |-> "null", s |-> <<>>, o |-> <<>>]

JNum == [t |-> "num", s |-> <<>>, o |-> <<>>]

JStr(str) == [t |-> "str", s |-> str, o |-> <<>>]

JObj(m) == [t |-> "obj", s |-> <<>>, o |-> m]

JArr(xs) == [t |-> "arr", s |-> <<>>, o |-> xs]

\* The object holding exactly the members of ms that are present.
MkObj(ms) ==
    JObj([k \in {m[1] : m \in {x \in ms : x[2].t # "absent"}} |->
            (CHOOSE m \in ms : m[1] = k)[2]])

\* value[k].(string) with a non-empty result.
HasStr(m, k) == k \in DOMAIN m /\ m[k].t = "str" /\ m[k].s # <<>>

\* value[k].(map[string]interface{})
HasObj(m, k) == k \in DOMAIN m /\ m[k].t = "obj"

Parsed(uid) == [uid |-> uid, ok |-> TRUE]

NotParsed == [uid |-> <<>>, ok |-> FALSE]

parseLocalCreateUID_blockKeyFirst(raw) ==
    IF raw.t \in {"invalid", "absent"} THEN NotParsed
    ELSE IF raw.t = "str"
    THEN IF raw.s # <<>> THEN Parsed(raw.s) ELSE NotParsed
    ELSE IF raw.t = "obj"
    THEN IF HasStr(raw.o, "block/uid") THEN Parsed(raw.o["block/uid"].s)
         ELSE IF HasStr(raw.o, "uid") THEN Parsed(raw.o["uid"].s)
         ELSE IF HasObj(raw.o, "block")
         THEN IF HasStr(raw.o["block"].o, "uid")
              THEN Parsed(raw.o["block"].o["uid"].s)
              ELSE IF HasStr(raw.o["block"].o, "block/uid")
              THEN Parsed(raw.o["block"].o["block/uid"].s)
              ELSE NotParsed
         ELSE NotParsed
    ELSE NotParsed

\* parseLocalCreateUID: the created UID out of a create call's result.
parseLocalCreateUID(raw) ==
    IF raw.t \in {"invalid", "absent"} THEN NotParsed
    ELSE IF raw.t = "str"
    THEN IF raw.s # <<>> THEN Parsed(raw.s) ELSE NotParsed
    ELSE IF raw.t = "obj"
    THEN IF HasStr(raw.o, "uid") THEN Parsed(raw.o["uid"].s)
         ELSE IF HasStr(raw.o, "block/uid") THEN Parsed(raw.o["block/uid"].s)
         ELSE IF HasObj(raw.o, "block")
         THEN IF HasStr(raw.o["block"].o, "uid")
              THEN Parsed(raw.o["block"].o["uid"].s)
              ELSE IF HasStr(raw.o["block"].o, "block/uid")
              THEN Parsed(raw.o["block"].o["block/uid"].s)
              ELSE NotParsed
         ELSE NotParsed
    ELSE NotParsed

\* Create results: every combination of the keys the parser looks at, each
\* absent, a string, an empty string or not a string.
NestedBlocks ==
    { MkObj({<<"uid", u>>, <<"block/uid", b>>}) :
        u \in {JAbsent, JStr(<<"N", "U">>), JStr(<<>>)},
        b \in {JAbsent, JStr(<<"N", "B", "U">>)} }

ParseInputs ==
    {JInvalid, JNull, JNum, JStr(<<"S">>), JStr(<<>>), JArr(<<JStr(<<"A">>)>>)}
    \cup { MkObj({<<"uid", u>>, <<"block/uid", b>>, <<"block", n>>,
                  <<"foo", f>>}) :
             u \in {JAbsent, JStr(<<"U">>), JStr(<<>>), JNum},
             b \in {JAbsent, JStr(<<"B", "U">>), JStr(<<>>)},
             n \in {JAbsent, JStr(<<"X">>)} \cup NestedBlocks,
             f \in {JAbsent, JStr(<<"F">>)} }

\* One application of parseLocalCreateUID to the input drawn at the start.
ParseCreateResult ==
    /\ parseOut = <<>>
    /\ parseOut' = <<parseLocalCreateUID(parseIn)>>
    /\ parseIn' = parseIn
    /\ UNCHANGED <<builderVars, cloudVars, localVars, cmdVars, conVars>>

(***************************************************************************)
(* Local client: port discovery, the call envelope, and the methods that   *)
(* make more than one call.                                                *)
(***************************************************************************)
LOk(val) == [err |-> "none", msg |-> <<>>, val |-> val, wrap |-> <<>>]

LErr(kind, msg) == [err |-> kind, msg |-> msg, val |-> JAbsent, wrap |-> <<>>]

\* fmt.Errorf(prefix + "%w", r): errors.As still finds r underneath.
Wrap(prefix, r) == [r EXCEPT !.wrap = <<prefix>> \o @]

LPending == [err |-> "pending", msg |-> <<>>, val |-> JAbsent, wrap |-> <<>>]

\* LocalAPIError.IsResponseTimeout, as errors.As then the method sees it.
IsResponseTimeout(r) == r.err = "LocalAPI" /\ r.msg = <<"Response timeout">>

IsSpaceChar(c) == c \in {" ", "\t", "\n", "\r"}

RECURSIVE TrimLeft(_)
TrimLeft(str) ==
    IF str # <<>> /\ IsSpaceChar(Head(str)) THEN TrimLeft(Tail(str)) ELSE str

RECURSIVE TrimRight(_)
TrimRight(str) ==
    IF str # <<>> /\ IsSpaceChar(str[Len(str)])
    THEN TrimRight(SubSeq(str, 1, Len(str) - 1))
    ELSE str

\* strings.TrimSpace
TrimSpace(str) == TrimRight(TrimLeft(str))

\* strconv.Atoi: an optional sign, then digits only and at least one.
Atoi(str) ==
    LET signed == str # <<>> /\ Head(str) \in {"+", "-"}
        rest == IF signed THEN Tail(str) ELSE str
        mag == DecimalValue(rest)
    IN  IF rest = <<>> \/ DigitPrefix(rest) # rest THEN [ok |-> FALSE, n |-> 0]
        ELSE [ok |-> TRUE,
              n |-> IF signed /\ Head(str) = "-" THEN 0 - mag ELSE mag]

\* $HOME/.roam-api-port as os.UserHomeDir and os.ReadFile find it.
PortFileName == "~/.roam-api-port"

HomeDirUnknown == [state |-> "nohome", data |-> <<>>]

PortFileAbsent == [state |-> "absent", data |-> <<>>]

PortFileUnreadable == [state |-> "unreadable", data |-> <<>>]

PortFileWith(data) == [state |-> "present", data |-> data]

PortFiles ==
    {HomeDirUnknown, PortFileAbsent, PortFileUnreadable}
    \cup { PortFileWith(d) :
             d \in { <<"8", "0">>, <<" ", "8", "0", " ", "\n", "\n">>,
                     <<"x">>, <<>>, <<"8", " ", "0">>, <<"-", "1">> } }

PortOk(port) == [err |-> "none", msg |-> <<>>, port |-> port]

PortErr(kind, msg) == [err |-> kind, msg |-> msg, port |-> 0]

\* discoverPort without the TrimSpace.
discoverPort_noTrim(pf) ==
    IF pf.state = "nohome"
    THEN PortErr("generic", <<"failed to get home directory">>)
    ELSE IF pf.state = "absent"
    THEN PortErr("DesktopNotRunning",
                 <<"Roam desktop app not running: port file ", PortFileName,
                   " not found. Start Roam and enable 'Encrypted local API' in settings.">>)
    ELSE IF pf.state = "unreadable"
    THEN PortErr("generic", <<"failed to read port file ", PortFileName>>)
    ELSE LET portStr == pf.data
             a == Atoi(portStr)
         IN  IF a.ok THEN PortOk(a.n)
             ELSE PortErr("generic",
                          <<"invalid port in ", PortFileName, ": ", portStr>>)

\* discoverPort
discoverPort(pf) ==
    IF pf.state = "nohome"
    THEN PortErr("generic", <<"failed to get home directory">>)
    ELSE IF pf.state = "absent"
    THEN PortErr("DesktopNotRunning",
                 <<"Roam desktop app not running: port file ", PortFileName,
                   " not found. Start Roam and enable 'Encrypted local API' in settings.">>)
    ELSE IF pf.state = "unreadable"
    THEN PortErr("generic", <<"failed to read port file ", PortFileName>>)
    ELSE LET portStr == TrimSpace(pf.data)
             a == Atoi(portStr)
         IN  IF a.ok THEN PortOk(a.n)
             ELSE PortErr("generic",
                          <<"invalid port in ", PortFileName, ": ", portStr>>)

\* What a request to the Local API meets: no response at all, or a status
\* with a body that is not JSON, or one that decodes into localResponse.
LocalTransportFailure ==
    [kind |-> "transport", status |-> 0, json |-> FALSE, success |-> FALSE,
     error |-> "", result |-> JAbsent, body |-> ""]

LocalGarbage(st) ==
    [kind |-> "response", status |-> st, json |-> FALSE, success |-> FALSE,
     error |-> "", result |-> JAbsent, body |-> "oops"]

LocalReply(st, success, error, res) ==
    [kind |-> "response", status |-> st, json |-> TRUE, success |-> success,
     error |-> error, result |-> res, body |-> "{}"]

\* Results of data.q: no rows, a row with a UID, a row whose cell is not
\* a string, a row with no cell, and a result that is not a list of rows.
PageRow == JArr(<<JArr(<<JStr(<<"p", "1">>)>>)>>)

QueryResults ==
    { JArr(<<>>), PageRow, JArr(<<JArr(<<JNum>>)>>), JArr(<<JArr(<<>>)>>),
      JStr(<<"x">>) }

\* The result of a write action: the UID written.
WriteResults == { JStr(<<"b", "1">>) }

\* The result of data.pull: the entity, or null for an entity id that
\* names nothing.
PullResults == { JNull, JObj([k \in {"node/title"} |-> JStr(<<"T">>)]) }

LocalResults(action) ==
    IF action = "data.q" THEN QueryResults
    ELSE IF action = "data.pull" THEN PullResults
    ELSE WriteResults

LocalOutcomes(action) ==
    { LocalTransportFailure }
    \cup { LocalGarbage(st) : st \in {200, 500} }
    \cup { LocalReply(st, FALSE, e, JAbsent) :
             st \in {200, 500}, e \in {"", "Graph not found", "Response timeout"} }
    \cup { LocalReply(500, TRUE, e, JAbsent) : e \in {"", "Graph not found"} }
    \cup { LocalReply(200, TRUE, "", res) : res \in LocalResults(action) }

\* callCtx returning the result whatever the status.
localCallResult_anyStatus(o) ==
    IF o.kind = "transport"
    THEN LErr("generic", <<"failed to send request to Local API">>)
    ELSE IF ~o.json
    THEN IF o.status # 200
         THEN LErr("generic", <<"local API error (status ", o.status, "): ", o.body>>)
         ELSE LErr("generic", <<"failed to parse Local API response">>)
    ELSE IF ~o.success THEN LErr("LocalAPI", <<o.error>>)
    ELSE LOk(o.result)

\* callCtx from the response on: what the call returns.
localCallResult(o) ==
    IF o.kind = "transport"
    THEN LErr("generic", <<"failed to send request to Local API">>)
    ELSE IF ~o.json
    THEN IF o.status # 200
         THEN LErr("generic", <<"local API error (status ", o.status, "): ", o.body>>)
         ELSE LErr("generic", <<"failed to parse Local API response">>)
    ELSE IF ~o.success THEN LErr("LocalAPI", <<o.error>>)
    ELSE IF o.status # 200
    THEN IF o.error # "" THEN LErr("LocalAPI", <<o.error>>)
         ELSE LErr("generic", <<"local API error (status ", o.status, ")">>)
    ELSE LOk(o.result)

\* callCtx up to the request: the port is discovered on every call, and a
\* URL with a negative port is refused by http.NewRequestWithContext.
localCallStart(pf) ==
    LET d == discoverPort(pf)
    IN  IF d.err # "none" THEN [send |-> FALSE, port |-> 0, r |-> LErr(d.err, d.msg)]
        ELSE IF d.port < 0
        THEN [send |-> FALSE, port |-> d.port,
              r |-> LErr("generic", <<"failed to create request">>)]
        ELSE [send |-> TRUE, port |-> d.port, r |-> LPending]

\* localRequest{Action, Args}
Req(action, args) == [action |-> action, args |-> args]

NoReq == Req("", <<>>)

\* roamdb.EscapeString on a string given as a sequence of pieces.
RECURSIVE EscapeString(_)
EscapeString(str) ==
    IF str = <<>> THEN <<>>
    ELSE (IF Head(str) = "\"" THEN <<"\"", "\"">> ELSE <<Head(str)>>)
         \o EscapeString(Tail(str))

\* The query of getOrCreatePageUID.
TitleQuery(title) ==
    Req("data.q",
        <<"[:find ?uid :where [?p :node/title \"">> \o EscapeString(title)
        \o <<"\"] [?p :block/uid ?uid]]">>)

LocMap(parentUID, order) ==
    [k \in {"parent-uid", "order"} |-> IF k = "parent-uid" THEN parentUID ELSE order]

\* Location.ToMap
ToMap(loc) ==
    LET m == [order |-> loc.Order]
    IN  IF loc.ParentUID # <<>> THEN Put(m, "parent-uid", loc.ParentUID)
        ELSE IF loc.DailyNoteDate # ""
             THEN Put(m, "page-title", [dailyNotePage |-> loc.DailyNoteDate])
        ELSE IF loc.PageTitle # "" THEN Put(m, "page-title", loc.PageTitle)
        ELSE m

\* BlockOptions.ToBlock as json.Marshal writes it (omitempty), for the
\* option fields of the model.
ToBlock(opts) ==
    LET m0 == [k \in {} |-> ""]
        m1 == IF opts.Content # "" THEN Put(m0, "string", opts.Content) ELSE m0
        m2 == IF opts.UID # <<>> THEN Put(m1, "uid", opts.UID) ELSE m1
    IN  IF opts.Open # "nil" THEN Put(m2, "open", opts.Open) ELSE m2

\* Client.CreateBlockAtLocation
ClientCreateBlockAtLocation(loc, opts) ==
    StartCall("CreateBlockAtLocation",
              WriteRequest("create-block",
                           [location |-> ToMap(loc), block |-> ToBlock(opts)]))

\* LocalClient.CreateBlock
LocalCreateBlockReq(parentUID, content, order) ==
    Req("data.block.create",
        [location |-> LocMap(parentUID, order), block |-> [string |-> content]])

\* The create call of LocalClient.CreateBlockAtLocation.
LocalCreateBlockAtReq(parentUID, loc, opts) ==
    Req("data.block.create",
        [location |-> LocMap(parentUID, loc.Order),
         block |-> ApplyToMap(opts, [string |-> opts.Content])])

\* LocalClient.UpdateBlock
LocalUpdateBlockReq(uid, content) ==
    Req("data.block.update", [block |-> [uid |-> uid, string |-> content]])

\* LocalClient.MoveBlock
LocalMoveBlockReq(uid, parentUID, order) ==
    Req("data.block.move",
        [location |-> ToMap(MkLocation(parentUID, "", "", order)),
         block |-> [uid |-> uid]])

\* LocalClient.DeleteBlock
LocalDeleteBlockReq(uid) == Req("data.block.delete", [block |-> [uid |-> uid]])

\* LocalClient.CreatePage
LocalCreatePageReq(title) == Req("data.page.create", [page |-> [title |-> title]])

\* LocalClient.DeletePage
LocalDeletePageReq(uid) == Req("data.page.delete", [page |-> [uid |-> uid]])

\* json.Unmarshal of a data.q result into [][]interface{}.
queryRows(val) ==
    IF val.t = "null" THEN [ok |-> TRUE, rows |-> <<>>]
    ELSE IF val.t = "arr" /\ \A i \in 1..Len(val.o) : val.o[i].t \in {"arr", "null"}
    THEN [ok |-> TRUE,
          rows |-> [i \in 1..Len(val.o) |->
                      IF val.o[i].t = "arr" THEN val.o[i].o ELSE <<>>]]
    ELSE [ok |-> FALSE, rows |-> <<>>]

\* time.Parse("01-02-2006", date) for the dates of the model.
timeParse(date) ==
    IF date = "01-02-2026" THEN [ok |-> TRUE, month |-> 1, day |-> 2, year |-> 2026]
    ELSE IF date = "03-11-2026" THEN [ok |-> TRUE, month |-> 3, day |-> 11, year |-> 2026]
    ELSE [ok |-> FALSE, month |-> 0, day |-> 0, year |-> 0]

MonthNames ==
    <<"January", "February", "March", "April", "May", "June", "July",
      "August", "September", "October", "November", "December">>

\* formatRoamDailyNoteTitle
formatRoamDailyNoteTitle(t) ==
    LET suffix == IF t.day < 11 \/ t.day > 13
                  THEN CASE t.day % 10 = 1 -> "st"
                         [] t.day % 10 = 2 -> "nd"
                         [] t.day % 10 = 3 -> "rd"
                         [] OTHER -> "th"
                  ELSE "th"
    IN  <<MonthNames[t.month], " ">> \o NatToStr(t.day) \o <<suffix, ", ">>
        \o NatToStr(t.year)

\* resolveLocationToParentUID up to the page lookup: the parent UID itself,
\* the title of the page to look up, or an error.
resolveLocation(loc) ==
    IF loc.ParentUID # <<>>
    THEN [kind |-> "parent", parent |-> loc.ParentUID, title |-> <<>>, msg |-> <<>>]
    ELSE IF loc.PageTitle # ""
    THEN [kind |-> "title", parent |-> <<>>, title |-> <<loc.PageTitle>>, msg |-> <<>>]
    ELSE IF loc.DailyNoteDate # ""
    THEN LET t == timeParse(loc.DailyNoteDate)
         IN  IF t.ok
             THEN [kind |-> "title", parent |-> <<>>,
                   title |-> formatRoamDailyNoteTitle(t), msg |-> <<>>]
             ELSE [kind |-> "error", parent |-> <<>>, title |-> <<>>,
                   msg |-> <<"invalid daily note date format (expected MM-DD-YYYY)">>]
    ELSE [kind |-> "error", parent |-> <<>>, title |-> <<>>,
          msg |-> <<"location must specify parent-uid, page-title, or daily-note-date">>]

\* ---------------------------------------------------------------------
\* Local client methods.  A method is a sequence of calls; lop holds the
\* method's locals, the call it is about to make and what discoverPort
\* returned to the latest call.
\* ---------------------------------------------------------------------

MkOp(method, stage, idx, batch, title, loc, opts, call) ==
    [method |-> method, stage |-> stage, idx |-> idx, batch |-> batch,
     title |-> title, loc |-> loc, opts |-> opts, call |-> call,
     port |-> PortOk(0)]

IdleOp ==
    MkOp("", "", 0, <<>>, <<>>, MkLocation(<<>>, "", "", "last"),
         MkBlockOptions("", <<>>), NoReq)

\* The method returns res.
Return(op, res) ==
    [pc |-> "done", op |-> [op EXCEPT !.stage = "returned", !.call = NoReq],
     result |-> res]

\* The method goes on to make the call req.
Goto(op, stage, req) ==
    [pc |-> "call", op |-> [op EXCEPT !.stage = stage, !.call = req],
     result |-> LPending]

\* LocalClient.Query once data.q has returned.
QueryReturn(r) ==
    IF r.err # "none" THEN r
    ELSE IF ~queryRows(r.val).ok
    THEN LErr("generic", <<"failed to parse query result">>)
    ELSE LOk(r.val)

\* getOrCreatePageUID reading results[0][0].(string): a UID, none, or the
\* index panic on a row without cells.
firstUID(val) ==
    LET rows == queryRows(val).rows
    IN  IF Len(rows) = 0 THEN [kind |-> "none", uid |-> <<>>]
        ELSE IF Len(rows[1]) = 0 THEN [kind |-> "panic", uid |-> <<>>]
        ELSE IF rows[1][1].t = "str" THEN [kind |-> "uid", uid |-> rows[1][1].s]
        ELSE [kind |-> "none", uid |-> <<>>]

IndexPanic == LErr("panic", <<"index out of range [0] with length 0">>)

\* CreateBlockAtLocation using no re-query after creating the page.
CreateBlockAtLocationNext_noRequery(op, r) ==
    LET q == QueryReturn(r)
    IN  CASE op.stage = "query"
               -> IF q.err # "none" THEN Return(op, q)
                  ELSE IF firstUID(q.val).kind = "panic" THEN Return(op, IndexPanic)
                  ELSE IF firstUID(q.val).kind = "uid"
                  THEN Goto(op, "create-block",
                            LocalCreateBlockAtReq(firstUID(q.val).uid, op.loc, op.opts))
                  ELSE Goto(op, "create-page", LocalCreatePageReq(op.title))
          [] op.stage = "create-page"
               -> IF r.err # "none"
                  THEN Return(op, Wrap("failed to create page: ", r))
                  ELSE Goto(op, "create-block",
                            LocalCreateBlockAtReq(<<>>, op.loc, op.opts))
          [] op.stage = "requery"
               -> Return(op, LErr("generic", <<"could not get page UID after creation">>))
          [] OTHER
               -> Return(op, IF r.err = "none" THEN LOk(JAbsent) ELSE r)

\* CreateBlockAtLocation (with resolveLocationToParentUID and
\* getOrCreatePageUID) from the return of one call to the next call.
CreateBlockAtLocationNext(op, r) ==
    LET q == QueryReturn(r)
    IN  CASE op.stage = "query"
               -> IF q.err # "none" THEN Return(op, q)
                  ELSE IF firstUID(q.val).kind = "panic" THEN Return(op, IndexPanic)
                  ELSE IF firstUID(q.val).kind = "uid"
                  THEN Goto(op, "create-block",
                            LocalCreateBlockAtReq(firstUID(q.val).uid, op.loc, op.opts))
                  ELSE Goto(op, "create-page", LocalCreatePageReq(op.title))
          [] op.stage = "create-page"
               -> IF r.err # "none"
                  THEN Return(op, Wrap("failed to create page: ", r))
                  ELSE Goto(op, "requery", TitleQuery(op.title))
          [] op.stage = "requery"
               -> IF q.err # "none" THEN Return(op, q)
                  ELSE IF firstUID(q.val).kind = "panic" THEN Return(op, IndexPanic)
                  ELSE IF firstUID(q.val).kind = "uid"
                  THEN Goto(op, "create-block",
                            LocalCreateBlockAtReq(firstUID(q.val).uid, op.loc, op.opts))
                  ELSE Return(op, LErr("generic",
                                       <<"could not get page UID after creation">>))
          [] OTHER
               -> Return(op, IF r.err = "none" THEN LOk(JAbsent) ELSE r)

DispatchTo(req) == [ok |-> TRUE, msg |-> <<>>, req |-> req]

Malformed(i, what) ==
    [ok |-> FALSE, msg |-> <<"batch action ", i, ": ", what>>, req |-> NoReq]

\* v.(string) on a value of a built record.
IsGoString(m, k) == k \in DOMAIN m /\ m[k].kind = "str"

\* The switch of LocalClient.ExecuteBatch for the record a at index i.
batchDispatch(a, i) ==
    CASE a.action = "create-page"
           -> DispatchTo(LocalCreatePageReq(<<a.page.title>>))
      [] a.action = "create-block"
           -> DispatchTo(LocalCreateBlockReq(
                  IF IsGoString(a.location, "parent-uid")
                  THEN a.location["parent-uid"].s ELSE <<>>,
                  IF "string" \in DOMAIN a.block THEN a.block.string ELSE "",
                  a.location.order))
      [] a.action = "update-block"
           -> IF ~IsGoString(a.block, "uid") THEN Malformed(i, "missing block uid")
              ELSE DispatchTo(LocalUpdateBlockReq(
                       a.block.uid.s,
                       IF "string" \in DOMAIN a.block THEN a.block.string ELSE ""))
      [] a.action = "move-block"
           -> IF ~IsGoString(a.block, "uid") THEN Malformed(i, "missing block uid")
              ELSE IF ~IsGoString(a.location, "parent-uid")
              THEN Malformed(i, "missing parent-uid")
              ELSE DispatchTo(LocalMoveBlockReq(a.block.uid.s,
                                                a.location["parent-uid"].s,
                                                a.location.order))
      [] a.action = "delete-block"
           -> IF ~IsGoString(a.block, "uid") THEN Malformed(i, "missing block uid")
              ELSE DispatchTo(LocalDeleteBlockReq(a.block.uid.s))
      [] a.action = "delete-page"
           -> IF ~IsGoString(a.page, "uid") THEN Malformed(i, "missing page uid")
              ELSE DispatchTo(LocalDeletePageReq(a.page.uid.s))
      [] OTHER
           -> Malformed(i, <<"unknown action type ", a.action>>)

\* ExecuteBatch deleting what it created when a later record is malformed.
ExecuteBatchFrom_undo(op, n) ==
    IF n > Len(op.batch) THEN Return([op EXCEPT !.idx = n], LOk(JAbsent))
    ELSE LET d == batchDispatch(op.batch[n], n - 1)
         IN  IF d.ok THEN Goto([op EXCEPT !.idx = n], "record", d.req)
             ELSE IF n > 1
             THEN Goto([op EXCEPT !.idx = n], "record", LocalDeletePageReq(<<"u">>))
             ELSE Return([op EXCEPT !.idx = n], LErr("generic", d.msg))

\* The loop of LocalClient.ExecuteBatch arriving at record n (1-based here,
\* n - 1 in the messages of the code).
ExecuteBatchFrom(op, n) ==
    IF n > Len(op.batch) THEN Return([op EXCEPT !.idx = n], LOk(JAbsent))
    ELSE LET d == batchDispatch(op.batch[n], n - 1)
         IN  IF d.ok THEN Goto([op EXCEPT !.idx = n], "record", d.req)
             ELSE Return([op EXCEPT !.idx = n], LErr("generic", d.msg))

\* ExecuteBatch stepping over every other record.
ExecuteBatchNext_skip(op, r) ==
    IF r.err # "none" THEN Return(op, r) ELSE ExecuteBatchFrom(op, op.idx + 2)

\* LocalClient.ExecuteBatch once the call for record op.idx has returned.
ExecuteBatchNext(op, r) ==
    IF r.err # "none" THEN Return(op, r) ELSE ExecuteBatchFrom(op, op.idx + 1)

\* roamdb.QueryPageByTitle and roamdb.QueryBlockByUID.
LookupQuery(method, arg) ==
    IF method = "GetPageByTitle"
    THEN <<"[:find ?e :where [?e :node/title \"">> \o EscapeString(arg) \o <<"\"]]">>
    ELSE <<"[:find ?e :where [?e :block/uid \"">> \o EscapeString(arg) \o <<"\"]]">>

\* The message of the NotFoundError of GetPageByTitle and GetBlockByUID.
NotFoundMessage(method, arg) ==
    IF method = "GetPageByTitle" THEN <<"page not found: ">> \o arg
    ELSE <<"block not found: ">> \o arg

PullSelector == "[* {:block/children ...}]"

\* The lookup pulling a nil entity id when the query finds nothing.
firstEid_pullNil(rows) ==
    IF Len(rows) = 0 THEN [kind |-> "eid", eid |-> JNull]
    ELSE IF Len(rows[1]) = 0 THEN [kind |-> "panic", eid |-> JNull]
    ELSE [kind |-> "eid", eid |-> rows[1][1]]

\* len(results) == 0, then eid := results[0][0]: nothing found, the index
\* panic on a row without cells, or the entity id.
firstEid(rows) ==
    IF Len(rows) = 0 THEN [kind |-> "none", eid |-> JNull]
    ELSE IF Len(rows[1]) = 0 THEN [kind |-> "panic", eid |-> JNull]
    ELSE [kind |-> "eid", eid |-> rows[1][1]]

\* LocalClient.Pull
LocalPullReq(eid, selector) == Req("data.pull", <<selector, eid>>)

\* LocalClient.GetPageByTitle and GetBlockByUID once a call has returned;
\* op.title is the title or the UID looked up.
LocalLookupNext(op, r) ==
    IF op.stage = "pull" THEN Return(op, r)
    ELSE LET q == QueryReturn(r)
             e == firstEid(queryRows(q.val).rows)
         IN  IF q.err # "none" THEN Return(op, q)
             ELSE IF e.kind = "none"
             THEN Return(op, LErr("NotFound", NotFoundMessage(op.method, op.title)))
             ELSE IF e.kind = "panic" THEN Return(op, IndexPanic)
             ELSE Goto(op, "pull", LocalPullReq(e.eid, PullSelector))

\* What the method in progress does when its call returns r.
MethodNext(op, r) ==
    CASE op.method = "Call" -> Return(op, r)
      [] op.method = "Query" -> Return(op, QueryReturn(r))
      [] op.method = "CreateBlockAtLocation" -> CreateBlockAtLocationNext(op, r)
      [] op.method \in {"GetPageByTitle", "GetBlockByUID"} -> LocalLookupNext(op, r)
      [] OTHER -> ExecuteBatchNext(op, r)

Proceed(n) ==
    /\ lpc' = n.pc
    /\ lop' = n.op
    /\ lresult' = n.result

\* LocalClient.Call(action, args...)
LocalCall(action, args) ==
    /\ lpc = "idle"
    /\ Proceed(Goto([IdleOp EXCEPT !.method = "Call"], "call", Req(action, args)))
    /\ UNCHANGED <<portFile, lreqs, louts>>
    /\ UNCHANGED <<builderVars, cloudVars, parseVars, cmdVars, conVars>>

\* LocalClient.Query(q)
LocalQuery(q) ==
    /\ lpc = "idle"
    /\ Proceed(Goto([IdleOp EXCEPT !.method = "Query"], "query", Req("data.q", <<q>>)))
    /\ UNCHANGED <<portFile, lreqs, louts>>
    /\ UNCHANGED <<builderVars, cloudVars, parseVars, cmdVars, conVars>>

\* LocalClient.CreateBlockAtLocation(loc, opts)
LocalCreateBlockAtLocation(loc, opts) ==
    /\ lpc = "idle"
    /\ LET t == resolveLocation(loc)
           op == [IdleOp EXCEPT !.method = "CreateBlockAtLocation",
                                !.title = t.title, !.loc = loc, !.opts = opts]
       IN  Proceed(CASE t.kind = "parent"
                          -> Goto(op, "create-block",
                                  LocalCreateBlockAtReq(t.parent, loc, opts))
                     [] t.kind = "title" -> Goto(op, "query", TitleQuery(t.title))
                     [] OTHER -> Return(op, LErr("generic", t.msg)))
    /\ UNCHANGED <<portFile, lreqs, louts>>
    /\ UNCHANGED <<builderVars, cloudVars, parseVars, cmdVars, conVars>>

\* LocalClient.ExecuteBatch(batch), on the builder's Build().
LocalExecuteBatch ==
    /\ lpc = "idle"
    /\ Proceed(ExecuteBatchFrom([IdleOp EXCEPT !.method = "ExecuteBatch",
                                               !.batch = actions], 1))
    /\ UNCHANGED <<portFile, lreqs, louts>>
    /\ UNCHANGED <<builderVars, cloudVars, parseVars, cmdVars, conVars>>

\* callCtx up to the request: either the request goes out or the call
\* returns an error without one.
LocalSend ==
    /\ lpc = "call"
    /\ LET s == localCallStart(portFile)
       IN  IF s.send
           THEN /\ lreqs' = Append(lreqs, [port |-> s.port, action |-> lop.call.action,
                                           args |-> lop.call.args])
                /\ lpc' = "wait"
                /\ lop' = [lop EXCEPT !.port = discoverPort(portFile)]
                /\ UNCHANGED lresult
           ELSE /\ Proceed(MethodNext([lop EXCEPT !.port = discoverPort(portFile)], s.r))
                /\ UNCHANGED lreqs
    /\ UNCHANGED <<portFile, louts>>
    /\ UNCHANGED <<builderVars, cloudVars, parseVars, cmdVars, conVars>>

\* callCtx from the response on, then the method's next step.
LocalRecv(o) ==
    /\ lpc = "wait"
    /\ louts' = Append(louts, o)
    /\ Proceed(MethodNext(lop, localCallResult(o)))
    /\ UNCHANGED <<portFile, lreqs>>
    /\ UNCHANGED <<builderVars, cloudVars, parseVars, cmdVars, conVars>>

\* LocalClient.GetPageByTitle(title) and GetBlockByUID(uid)
LocalLookup(method, arg) ==
    /\ lpc = "idle"
    /\ Proceed(Goto([IdleOp EXCEPT !.method = method, !.title = arg], "query",
                    Req("data.q", LookupQuery(method, arg))))
    /\ UNCHANGED <<portFile, lreqs, louts>>
    /\ UNCHANGED <<builderVars, cloudVars, parseVars, cmdVars, conVars>>

\* ---------------------------------------------------------------------
\* Client.GetPageByTitle and Client.GetBlockByUID: Query, then Pull.
\* While one of them runs, cur.method holds its name and its argument.
\* ---------------------------------------------------------------------

\* A response body {"result": v}.
ResultBody(v) == JObj([k \in {"result"} |-> v])

\* The bodies a 200 response can carry: not JSON, {}, or a result.
CloudBodies(path) ==
    {JInvalid, JObj(<<>>)}
    \cup { ResultBody(v) : v \in IF path = GraphPath("q") THEN QueryResults
                                  ELSE PullResults }

CloudReply(b) ==
    [kind |-> "response", status |-> 200, location |-> NoLocation, body |-> b]

\* Client.Query from the return of callWithRetry on: json.Unmarshal of the
\* body into QueryResult.
clientQueryReturn(r) ==
    IF r.err # "none" THEN r
    ELSE IF r.body.t = "null" THEN Ok(<<>>)
    ELSE IF r.body.t # "obj" THEN Err("generic", <<"failed to parse query result">>)
    ELSE IF "result" \notin DOMAIN r.body.o THEN Ok(<<>>)
    ELSE IF queryRows(r.body.o["result"]).ok
    THEN Ok(queryRows(r.body.o["result"]).rows)
    ELSE Err("generic", <<"failed to parse query result">>)

\* Client.Pull from the return of callWithRetry on: json.Unmarshal of the
\* body into PullResult.
clientPullReturn(r) ==
    IF r.err # "none" THEN r
    ELSE IF r.body.t = "null" THEN Ok(JAbsent)
    ELSE IF r.body.t # "obj" THEN Err("generic", <<"failed to parse pull result">>)
    ELSE IF "result" \notin DOMAIN r.body.o THEN Ok(JAbsent)
    ELSE Ok(r.body.o["result"])

\* Client.GetPageByTitle(title) and GetBlockByUID(uid) up to their query.
CloudLookup(method, arg) ==
    /\ pc = "idle"
    /\ StartCall(<<method, arg>>,
                 [path |-> GraphPath("q"),
                  body |-> [query |-> LookupQuery(method, arg)]])

\* The lookup once its query has returned.
CloudLookupNext ==
    /\ pc = "done"
    /\ cur.path = GraphPath("q")
    /\ LET q == clientQueryReturn(result)
           e == firstEid(q.body)
       IN  IF q.err = "none" /\ e.kind = "eid"
           THEN StartCall(cur.method,
                          [path |-> GraphPath("pull"),
                           body |-> [eid |-> e.eid, selector |-> PullSelector]])
           ELSE /\ result' = IF q.err # "none" THEN q
                             ELSE IF e.kind = "none"
                             THEN Err("NotFound",
                                      NotFoundMessage(cur.method[1], cur.method[2]))
                             ELSE Err("panic", <<"index out of range [0] with length 0">>)
                /\ pc' = "returned"
                /\ UNCHANGED <<redirectCache, cur, attempt, backoff, requests,
                               outcomes, sleeps, ncalls>>
                /\ UNCHANGED <<builderVars, extVars>>

\* The lookup once its pull has returned.
CloudLookupReturn ==
    /\ pc = "done"
    /\ cur.path = GraphPath("pull")
    /\ result' = clientPullReturn(result)
    /\ pc' = "returned"
    /\ UNCHANGED <<redirectCache, cur, attempt, backoff, requests, outcomes,
                   sleeps, ncalls>>
    /\ UNCHANGED <<builderVars, extVars>>

\* ---------------------------------------------------------------------
\* One Client shared by two goroutines, each inside callCtx.  The reads
\* and the writes of c.redirectCache take time: an access begins, and
\* ends in a later step.  callCtx takes no lock, so nothing makes an
\* access wait for another.  An access that overlaps a write of the
\* other goroutine is a data race on a Go map: it may go through with
\* either value, or the runtime may stop the program ("concurrent map
\* read and map write", "concurrent map writes").
\* ---------------------------------------------------------------------

Callers == {"A", "B"}

Other(g) == CHOOSE h \in Callers : h # g

\* callCtx's locals: the base URL it read, the values the cache held while
\* it was reading, the redirects followed, whether its access in progress
\* has overlapped a conflicting one, the URL it is writing, its result.
MkCall(base, seen, follows, raced, writing, res) ==
    [base |-> base, seen |-> seen, follows |-> follows, raced |-> raced,
     writing |-> writing, res |-> res]

\* The exchanges of a shared call: a failure, an answer, or a redirect.
SharedOutcomes == { o \in Outcomes : IsFollowed(o) \/ o.status \in {0, 200} }

\* The access of g that begins now conflicts with one of the other
\* goroutine that is in progress.
Conflicts(g, access) ==
    \/ gpc[Other(g)] = "write"
    \/ access = "write" /\ gpc[Other(g)] = "read"

\* gop, with the other goroutine's access in progress marked as raced if
\* the access g begins conflicts with it.
MarkOther(g, access) ==
    IF Conflicts(g, access)
    THEN [gop EXCEPT ![Other(g)].raced = TRUE]
    ELSE gop

\* callCtx begins: it starts to read c.redirectCache[c.graphName].
SharedReadBegin(g, follows) ==
    /\ gpc' = [gpc EXCEPT ![g] = "read"]
    /\ gop' = [MarkOther(g, "read") EXCEPT
                 ![g] = MkCall(DefaultBaseURL, {baseURL(redirectCache)}, follows,
                               Conflicts(g, "read"), <<>>, Pending)]

\* A goroutine calls a method of the shared client.
SharedCall(g) ==
    /\ gpc[g] = "idle"
    /\ SharedReadBegin(g, 0)
    /\ UNCHANGED <<redirectCache, glog, graph>>
    /\ UNCHANGED <<builderVars, pc, cur, attempt, backoff, requests, outcomes,
                   sleeps, result, ncalls, parseVars, localVars, cmdVars>>

\* The runtime stops the program.
Crash == [g \in Callers |-> "crashed"]

\* The read of the cache ends: baseURL is what the cache holds, or, after
\* a race, any value it held during the read.
SharedReadEnd(g) ==
    /\ gpc[g] = "read"
    /\ \/ /\ \E b \in (IF gop[g].raced THEN gop[g].seen ELSE {baseURL(redirectCache)}) :
               gop' = [gop EXCEPT ![g].base = b, ![g].raced = FALSE]
          /\ gpc' = [gpc EXCEPT ![g] = "request"]
       \/ /\ gop[g].raced
          /\ gpc' = Crash
          /\ UNCHANGED gop
    /\ UNCHANGED <<redirectCache, glog, graph>>
    /\ UNCHANGED <<builderVars, pc, cur, attempt, backoff, requests, outcomes,
                   sleeps, result, ncalls, parseVars, localVars, cmdVars>>

\* The HTTP exchange of callCtx; on a redirect it starts to write
\* c.redirectCache[c.graphName].
SharedExchange(g, o) ==
    /\ gpc[g] = "request"
    /\ glog' = Append(glog, [caller |-> g, url |-> gop[g].base])
    /\ IF IsFollowed(o)
       THEN /\ gop[g].follows < MaxRedirects
            /\ gpc' = [gpc EXCEPT ![g] = "write"]
            /\ gop' = [MarkOther(g, "write") EXCEPT
                         ![g].writing = redirectURL(o.location),
                         ![g].raced = Conflicts(g, "write")]
       ELSE /\ gpc' = [gpc EXCEPT ![g] = "done"]
            /\ gop' = [gop EXCEPT ![g].res = callCtxResult(o)]
    /\ UNCHANGED <<redirectCache, graph>>
    /\ UNCHANGED <<builderVars, pc, cur, attempt, backoff, requests, outcomes,
                   sleeps, result, ncalls, parseVars, localVars, cmdVars>>

\* The write of the cache ends, and callCtx calls itself: it starts to
\* read the cache again.
SharedWriteEnd(g) ==
    /\ gpc[g] = "write"
    /\ \/ /\ redirectCache' = Put(redirectCache, GraphName, gop[g].writing)
          /\ gpc' = [gpc EXCEPT ![g] = "read"]
          /\ gop' = [h \in Callers |->
                       IF h = g
                       THEN MkCall(DefaultBaseURL, {gop[g].writing},
                                   gop[g].follows + 1, FALSE, <<>>, Pending)
                       ELSE IF gpc[h] = "read"
                       THEN [gop[h] EXCEPT !.seen = @ \cup {gop[g].writing}]
                       ELSE gop[h]]
       \/ /\ gop[g].raced
          /\ gpc' = Crash
          /\ UNCHANGED <<redirectCache, gop>>
    /\ UNCHANGED <<glog, graph>>
    /\ UNCHANGED <<builderVars, pc, cur, attempt, backoff, requests, outcomes,
                   sleeps, result, ncalls, parseVars, localVars, cmdVars>>

\* ---------------------------------------------------------------------
\* One graph written by two callers of LocalClient.CreateBlockAtLocation.
\* The Roam desktop app handles one request at a time; the callers'
\* requests reach it in any order.
\* ---------------------------------------------------------------------

\* A caller's method in progress and what it returned.
IdleCaller == [op |-> IdleOp, result |-> LPending]

\* The UID the app gives to the n-th page created.
PageUID(n) == <<"p">> \o NatToStr(n)

\* The pages of the graph that a title query finds.
PagesFound(pages, query) ==
    SelectSeq(pages, LAMBDA pg : TitleQuery(pg.title).args = query)

\* The app's answer to a request: the rows of a query, the UID of what a
\* write created.
AppReply(pages, req) ==
    IF req.action = "data.q"
    THEN LocalReply(200, TRUE, "",
                    JArr([i \in 1..Len(PagesFound(pages, req.args)) |->
                            JArr(<<JStr(PagesFound(pages, req.args)[i].uid)>>)]))
    ELSE IF req.action = "data.page.create"
    THEN LocalReply(200, TRUE, "", JStr(PageUID(Len(pages) + 1)))
    ELSE LocalReply(200, TRUE, "", JStr(<<"b", "1">>))

\* The graph after the app has handled a request.
AppWrite(pages, req) ==
    IF req.action = "data.page.create"
    THEN Append(pages, [title |-> req.args.page.title, uid |-> PageUID(Len(pages) + 1)])
    ELSE pages

\* A caller enters CreateBlockAtLocation(loc, opts).
RaceStart(g, loc, opts) ==
    /\ gpc[g] = "idle"
    /\ LET t == resolveLocation(loc)
           op == [IdleOp EXCEPT !.method = "CreateBlockAtLocation",
                                !.title = t.title, !.loc = loc, !.opts = opts]
           n == CASE t.kind = "parent"
                       -> Goto(op, "create-block",
                               LocalCreateBlockAtReq(t.parent, loc, opts))
                  [] t.kind = "title" -> Goto(op, "query", TitleQuery(t.title))
                  [] OTHER -> Return(op, LErr("generic", t.msg))
       IN  /\ gpc' = [gpc EXCEPT ![g] = n.pc]
           /\ gop' = [gop EXCEPT ![g] = [op |-> n.op, result |-> n.result]]
    /\ UNCHANGED <<glog, graph>>
    /\ UNCHANGED <<builderVars, cloudVars, parseVars, localVars, cmdVars>>

\* callCtx for a caller's pending call: the port is discovered, the
\* request reaches the app, which handles it and answers, or it does not;
\* the method goes on from what the call returned.
RaceCallStep(g, applied) ==
    LET req == gop[g].op.call
        s == localCallStart(portFile)
        op == [gop[g].op EXCEPT !.port = discoverPort(portFile)]
    IN  [log |-> IF s.send
                 THEN Append(glog, [caller |-> g, action |-> req.action,
                                    args |-> req.args])
                 ELSE glog,
         pages |-> IF s.send /\ applied THEN AppWrite(graph, req) ELSE graph,
         next |-> MethodNext(op,
                             IF ~s.send THEN s.r
                             ELSE IF applied
                             THEN localCallResult(AppReply(graph, req))
                             ELSE localCallResult(LocalTransportFailure))]

\* The first query waiting while the other caller is between its own first
\* query and the return of its re-query, as under a lock around
\* getOrCreatePageUID.
RaceEnter_locked(g) ==
    /\ gpc[g] = "call"
    /\ ~(/\ gop[g].op.stage = "query"
         /\ \/ gpc[Other(g)] = "wait" /\ gop[Other(g)].op.stage = "query"
            \/ /\ gpc[Other(g)] \in {"call", "wait"}
               /\ gop[Other(g)].op.stage \in {"create-page", "requery"})
    /\ gpc' = [gpc EXCEPT ![g] = "wait"]
    /\ UNCHANGED <<gop, glog, graph>>
    /\ UNCHANGED <<builderVars, cloudVars, parseVars, localVars, cmdVars>>

\* A caller's method makes its next call: c.call is entered, and nothing
\* is waited for.
RaceEnter(g) ==
    /\ gpc[g] = "call"
    /\ gpc' = [gpc EXCEPT ![g] = "wait"]
    /\ UNCHANGED <<gop, glog, graph>>
    /\ UNCHANGED <<builderVars, cloudVars, parseVars, localVars, cmdVars>>

\* The call a caller has entered runs and returns, and the method goes on.
RaceCall(g, applied) ==
    /\ gpc[g] = "wait"
    /\ glog' = RaceCallStep(g, applied).log
    /\ graph' = RaceCallStep(g, applied).pages
    /\ gpc' = [gpc EXCEPT ![g] = RaceCallStep(g, applied).next.pc]
    /\ gop' = [gop EXCEPT ![g] = [op |-> RaceCallStep(g, applied).next.op,
                                  result |-> RaceCallStep(g, applied).next.result]]
    /\ UNCHANGED <<builderVars, cloudVars, parseVars, localVars, cmdVars>>

\* ---------------------------------------------------------------------
\* The import command's buildBatchBlocks: a forest of markdown blocks
\* turned into create-block calls on the builder.
\* ---------------------------------------------------------------------

\* MarkdownBlock{Content, Children}
Block(content, children) == [Content |-> content, Children |-> children]

Forests ==
    { <<>>,
      <<Block("a", <<>>)>>,
      <<Block("a", <<>>), Block("b", <<>>)>>,
      <<Block("a", <<>>), Block("b", <<>>), Block("c", <<>>)>>,
      <<Block("a", <<Block("b", <<>>)>>)>>,
      <<Block("a", <<Block("b", <<>>), Block("c", <<>>)>>)>>,
      <<Block("a", <<Block("b", <<Block("c", <<>>)>>)>>)>>,
      <<Block("a", <<Block("b", <<>>)>>), Block("c", <<>>)>>,
      <<Block("a", <<Block("b", <<>>)>>), Block("c", <<Block("d", <<>>)>>)>>,
      <<Block("a", <<>>), Block("b", <<Block("c", <<>>), Block("d", <<>>)>>)>> }

\* The parent the import resolves: a page's UID, the handle of the page
\* created in the same batch, a UID beginning with '-' and a digit.
ImportParents == { <<"a", "b">>, <<"-", "1">>, <<"-", "1", "a">> }

\* BatchBuilder.CreateBlock as a function of the builder: the builder
\* after the call, and the reference returned.
createBlockOn(b, loc, opts) ==
    LET tempID == b.nextTempID
        uidValue == IF opts.UID # <<>> THEN StrVal(opts.UID) ELSE IntVal(tempID)
        uidRef == IF opts.UID # <<>> THEN opts.UID ELSE SprintfD(tempID)
        blockMap == ApplyToMap(opts, [uid |-> uidValue, string |-> opts.Content])
    IN  [b |-> [actions |-> Append(b.actions, [action |-> "create-block",
                                                location |-> buildLocation(loc),
                                                block |-> blockMap]),
                nextTempID |-> allocateTempID(b.nextTempID),
                calls |-> Append(b.calls, [op |-> "CreateBlock", uid |-> opts.UID,
                                           parent |-> loc.ParentUID, ret |-> uidRef])],
         ref |-> uidRef]

\* buildBatchBlocks from the i-th block of blocks on: the builder after
\* the loop, and the count returned.
RECURSIVE buildBatchBlocks(_, _, _, _, _)
buildBatchBlocks(b, parentUID, blocks, i, startOrder) ==
    IF i > Len(blocks) THEN [b |-> b, count |-> 0]
    ELSE LET order == IF i = 1 /\ startOrder # "nil" THEN startOrder ELSE "last"
             c == createBlockOn(b, MkLocation(parentUID, "", "", order),
                                MkBlockOptions(blocks[i].Content, <<>>))
             kids == IF Len(blocks[i].Children) > 0
                     THEN buildBatchBlocks(c.b, c.ref, blocks[i].Children, 1, "last")
                     ELSE [b |-> c.b, count |-> 0]
             rest == buildBatchBlocks(kids.b, parentUID, blocks, i + 1, startOrder)
         IN  [b |-> rest.b, count |-> 1 + kids.count + rest.count]

\* importWithBatch calling buildBatchBlocks(batch, parentUID, blocks, order);
\* ret keeps the arguments next to the count returned.
BuildBatchBlocks(parentUID, blocks, startOrder) ==
    /\ ret.op \in {"NewBatchBuilder", "CreatePage"}
    /\ LET r == buildBatchBlocks([actions |-> actions, nextTempID |-> nextTempID,
                                  calls |-> calls], parentUID, blocks, 1, startOrder)
       IN  /\ actions' = r.b.actions
           /\ nextTempID' = r.b.nextTempID
           /\ calls' = r.b.calls
           /\ ret' = [op |-> "buildBatchBlocks", val |-> r.count,
                      parent |-> parentUID, blocks |-> blocks, base |-> Len(actions)]
    /\ UNCHANGED <<cloudVars, extVars>>

\* ---------------------------------------------------------------------
\* Commands that write through the client and look again after a
\* "Response timeout": block create, block update, block move, page
\* create and the daily-note add.  The client is the RoamAPI interface:
\* each call simply returns one of its possible results.
\* ---------------------------------------------------------------------

ResponseTimeout == LErr("LocalAPI", <<"Response timeout">>)

\* What a write through the client returns.
WriteReturns ==
    { LOk(JAbsent), ResponseTimeout, Wrap("failed to create page: ", ResponseTimeout),
      LErr("LocalAPI", <<"Graph not found">>),
      LErr("generic", <<"failed to send request to Local API">>) }

\* What client.Query returns to a verify helper: rows, no rows, an error.
VerifyReturns ==
    { LOk(PageRow), LOk(JArr(<<>>)), LErr("generic", <<"failed to send request to Local API">>) }

\* What GetPageByTitle and the daily-note page lookup return.
NotFound == LErr("NotFound", <<"page not found">>)

LookupReturns ==
    { LOk(JAbsent), NotFound, LErr("generic", <<"failed to send request to Local API">>) }

MkCmd(name, content, parent) ==
    [name |-> name, content |-> content, parent |-> parent, werr |-> LPending]

Commands ==
    { MkCmd("block create", "c", p) : p \in {<<"a", "b">>, <<>>} }
    \cup { MkCmd("block update", c, <<>>) : c \in {"c", ""} }
    \cup { MkCmd("block move", "", p) : p \in {<<"a", "b">>, <<>>} }
    \cup { MkCmd("page create", c, <<>>) : c \in {"c", ""} }
    \cup { MkCmd("daily add", "c", <<>>) }

\* The prefix each command puts before a failed write.
FailurePrefix(c) ==
    CASE c.name = "block create" -> "failed to create block: "
      [] c.name = "block update" -> "failed to update block: "
      [] c.name = "block move" -> "failed to move block: "
      [] c.name = "page create" -> "failed to create page: "
      [] OTHER -> "failed to add block: "

\* Whether the command calls its verify helper after a timed-out write:
\* block update only with --content, block move only with --parent.
Verifies(c) ==
    CASE c.name = "block update" -> c.content # ""
      [] c.name = "block move" -> c.parent # <<>>
      [] OTHER -> TRUE

CmdEvent(ev, r) == [ev |-> ev, r |-> r]

CmdReturn(r) ==
    /\ cmdPc' = "done"
    /\ cmdResult' = r

\* After the write counts as done: page create with --content goes on to
\* add the content block, every other command reports success.
Written ==
    IF cmd.name = "page create" /\ cmd.content # ""
    THEN cmdPc' = "content-lookup" /\ UNCHANGED cmdResult
    ELSE CmdReturn(LOk(JAbsent))

CmdStart(c) ==
    /\ cmdPc = "idle"
    /\ cmd' = c
    /\ cmdPc' = IF c.name \in {"page create", "daily add"} THEN "lookup" ELSE "write"
    /\ UNCHANGED <<cmdLog, cmdResult>>
    /\ UNCHANGED <<builderVars, cloudVars, parseVars, localVars, conVars>>

\* page create: GetPageByTitle must say NotFound.  daily add: the page
\* UID must be found or the page created.
CmdLookup(r) ==
    /\ cmdPc = "lookup"
    /\ cmdLog' = Append(cmdLog, CmdEvent("lookup", r))
    /\ IF cmd.name = "page create"
       THEN IF r.err = "none"
            THEN CmdReturn(LErr("generic", <<"page already exists">>))
            ELSE IF r.err = "NotFound" THEN cmdPc' = "write" /\ UNCHANGED cmdResult
            ELSE CmdReturn(Wrap("failed to check existing page: ", r))
       ELSE IF r.err = "none" THEN cmdPc' = "write" /\ UNCHANGED cmdResult
            ELSE CmdReturn(Wrap("failed to get or create daily note: ", r))
    /\ UNCHANGED cmd
    /\ UNCHANGED <<builderVars, cloudVars, parseVars, localVars, conVars>>

\* The write of the command returns r.
CmdWrite(r) ==
    /\ cmdPc = "write"
    /\ cmdLog' = Append(cmdLog, CmdEvent("write", r))
    /\ cmd' = [cmd EXCEPT !.werr = r]
    /\ IF r.err = "none" THEN Written
       ELSE IF IsResponseTimeout(r) /\ Verifies(cmd)
       THEN cmdPc' = "verify" /\ UNCHANGED cmdResult
       ELSE CmdReturn(Wrap(FailurePrefix(cmd), r))
    /\ UNCHANGED <<builderVars, cloudVars, parseVars, localVars, conVars>>

\* The verify helper taking any answered query for a confirmation.
CmdVerify_anyAnswer(q) ==
    /\ cmdPc = "verify"
    /\ cmdLog' = cmdLog \o <<CmdEvent("sleep-500ms", LPending), CmdEvent("verify-query", q)>>
    /\ IF q.err = "none" THEN Written
       ELSE CmdReturn(Wrap(FailurePrefix(cmd), cmd.werr))
    /\ UNCHANGED cmd
    /\ UNCHANGED <<builderVars, cloudVars, parseVars, localVars, conVars>>

\* The verify helper: the 500ms wait, one query, and its verdict.
CmdVerify(q) ==
    /\ cmdPc = "verify"
    /\ cmdLog' = cmdLog \o <<CmdEvent("sleep-500ms", LPending), CmdEvent("verify-query", q)>>
    /\ IF q.err = "none" /\ Len(queryRows(q.val).rows) > 0 THEN Written
       ELSE CmdReturn(Wrap(FailurePrefix(cmd), cmd.werr))
    /\ UNCHANGED cmd
    /\ UNCHANGED <<builderVars, cloudVars, parseVars, localVars, conVars>>

\* page create --content: the page is fetched again for its UID.
CmdContentLookup(r) ==
    /\ cmdPc = "content-lookup"
    /\ cmdLog' = Append(cmdLog, CmdEvent("lookup", r))
    /\ IF r.err = "none" THEN cmdPc' = "content-write" /\ UNCHANGED cmdResult
       ELSE CmdReturn(Wrap("page created but failed to add content: ", r))
    /\ UNCHANGED cmd
    /\ UNCHANGED <<builderVars, cloudVars, parseVars, localVars, conVars>>

\* page create --content: client.CreateBlock for the content.
CmdContentWrite(r) ==
    /\ cmdPc = "content-write"
    /\ cmdLog' = Append(cmdLog, CmdEvent("write", r))
    /\ IF r.err = "none" THEN CmdReturn(LOk(JAbsent))
       ELSE CmdReturn(Wrap("page created but failed to add content: ", r))
    /\ UNCHANGED cmd
    /\ UNCHANGED <<builderVars, cloudVars, parseVars, localVars, conVars>>

\* ---------------------------------------------------------------------
\* Initial states and specifications
\* ---------------------------------------------------------------------

ParseIdle == parseIn = JAbsent /\ parseOut = <<>>

LocalIdle ==
    /\ lpc = "idle"
    /\ lop = IdleOp
    /\ lreqs = <<>>
    /\ louts = <<>>
    /\ lresult = LPending

CmdIdle ==
    /\ cmdPc = "idle"
    /\ cmd = MkCmd("", "", <<>>)
    /\ cmdLog = <<>>
    /\ cmdResult = LPending

\* Two goroutines that have not called the client yet, and a graph
\* without pages.
ConIdle ==
    /\ gpc = [g \in Callers |-> "idle"]
    /\ gop = [g \in Callers |-> IdleCaller]
    /\ glog = <<>>
    /\ graph = <<>>

Init ==
    /\ InitCore
    /\ ParseIdle
    /\ portFile = PortFileAbsent
    /\ LocalIdle
    /\ CmdIdle
    /\ ConIdle

\* parseLocalCreateUID is about to be applied to some create result.
InitParse ==
    /\ InitCore
    /\ parseIn \in ParseInputs
    /\ parseOut = <<>>
    /\ portFile = PortFileAbsent
    /\ LocalIdle
    /\ CmdIdle
    /\ ConIdle

\* A local client, with the port file in whatever state the machine has it.
InitLocal ==
    /\ InitCore
    /\ ParseIdle
    /\ portFile \in PortFiles
    /\ LocalIdle
    /\ CmdIdle
    /\ ConIdle

Next ==
    \/ \E opts \in PageOptionsSet : CreatePage(opts)
    \/ \E in \in BlockCreateInputs : CreateBlock(in[1], in[2])
    \/ \E in \in BlockUpdateInputs : UpdateBlock(in[1], in[2])
    \/ \E uid \in RefUIDs, opts \in PageUpdateOptions : UpdatePage(uid, opts)
    \/ \E uid \in RefUIDs, loc \in MoveLocations : MoveBlock(uid, loc)
    \/ \E uid \in RefUIDs : DeleteBlock(uid)
    \/ \E uid \in RefUIDs : DeletePage(uid)
    \/ Build

\* The builder calls a caller makes before handing the batch to a client.
BatchStep ==
    \/ CreatePage([Title |-> "T", UID |-> <<>>, ChildrenViewType |-> ""])
    \/ CreateBlock(MkLocation(<<"-", "1">>, "", "", "last"), MkBlockOptions("c", <<>>))
    \/ DeleteBlock(<<"a", "b">>)

NextCloud ==
    \/ pc = "idle" /\ Len(calls) < MaxBatch /\ BatchStep
    \/ Query("q")
    \/ Pull(1, "[*]")
    \/ PullMany(<<1, 2>>, "[*]")
    \/ ClientDeleteBlock(<<"a", "b">>)
    \/ ExecuteBatch
    \/ \E o \in Outcomes : Exchange(o)
    \/ Sleep

Spec == Init /\ [][Next]_vars

SpecCloud == Init /\ [][NextCloud]_vars

NextParse == ParseCreateResult

\* The builder calls made before a batch goes to the local client.
LocalBatchStep ==
    \/ \E u \in CreateUIDs :
          CreatePage([Title |-> "T", UID |-> u, ChildrenViewType |-> ""])
    \/ \E p \in {<<"-", "1">>, <<"a", "b">>} :
          CreateBlock(MkLocation(p, "", "", "last"), MkBlockOptions("c", <<>>))
    \/ CreateBlock(MkLocation(<<"a", "b">>, "", "", "last"),
                   [UID |-> <<"c", "d">>, Open |-> "true", Content |-> "c"])
    \/ \E uid \in {<<"a", "b">>, <<"-", "1">>} :
          UpdateBlock(uid, MkBlockOptions("c", <<>>))
    \/ UpdateBlock(<<"a", "b">>, [UID |-> <<>>, Open |-> "true", Content |-> ""])
    \/ UpdatePage(<<"a", "b">>, [Title |-> "T", UID |-> <<>>, ChildrenViewType |-> ""])
    \/ MoveBlock(<<"a", "b">>, MkLocation(<<"a", "b">>, "", "", "last"))
    \/ DeleteBlock(<<"a", "b">>)
    \/ DeletePage(<<"a", "b">>)

\* Locations and options handed to the local CreateBlockAtLocation.
LocalLocations ==
    { MkLocation(<<"a", "b">>, "", "", "last"),
      MkLocation(<<>>, "T", "", "last"),
      MkLocation(<<>>, "", "01-02-2026", "last"),
      MkLocation(<<>>, "", "03-11-2026", "first"),
      MkLocation(<<>>, "", "2026-01-02", "last"),
      MkLocation(<<>>, "", "", "last") }

\* A caller of the local client's own methods.
NextLocal ==
    \/ LocalCall("data.q", <<"q">>)
    \/ LocalQuery("q")
    \/ \E loc \in LocalLocations, u \in CreateUIDs :
          LocalCreateBlockAtLocation(loc, MkBlockOptions("c", u))
    \/ LocalSend
    \/ \E o \in LocalOutcomes(lop.call.action) : LocalRecv(o)

\* A caller that builds a batch and hands it to the local client.
NextLocalBatch ==
    \/ lpc = "idle" /\ Len(calls) < MaxBatch /\ LocalBatchStep
    \/ LocalExecuteBatch
    \/ LocalSend
    \/ \E o \in LocalOutcomes(lop.call.action) : LocalRecv(o)

NextCmd ==
    \/ \E c \in Commands : CmdStart(c)
    \/ \E r \in LookupReturns : CmdLookup(r)
    \/ \E r \in WriteReturns : CmdWrite(r)
    \/ \E q \in VerifyReturns : CmdVerify(q)
    \/ \E r \in LookupReturns : CmdContentLookup(r)
    \/ \E r \in WriteReturns : CmdContentWrite(r)

SpecParse == InitParse /\ [][NextParse]_vars

SpecLocal == InitLocal /\ [][NextLocal]_vars

SpecLocalBatch == InitLocal /\ [][NextLocalBatch]_vars

SpecCmd == Init /\ [][NextCmd]_vars

\* The titles and UIDs looked up.
LookupArgs(method) ==
    IF method = "GetPageByTitle" THEN { <<"T">>, <<"a", "\"", "b">> }
    ELSE { <<"a", "b">> }

\* A caller of GetPageByTitle or GetBlockByUID, holding a client of one
\* transport or of the other.  The port file plays no part on the cloud
\* transport, whose runs are explored for one state of the file.
NextLookup ==
    \/ \E m \in {"GetPageByTitle", "GetBlockByUID"} :
          \E a \in LookupArgs(m) : pc = "idle" /\ LocalLookup(m, a)
    \/ LocalSend
    \/ \E o \in LocalOutcomes(lop.call.action) : LocalRecv(o)
    \/ \E m \in {"GetPageByTitle", "GetBlockByUID"} :
          \E a \in LookupArgs(m) :
             lpc = "idle" /\ portFile = PortFileAbsent /\ CloudLookup(m, a)
    \/ \E o \in {x \in Outcomes : x.status # 200} : Exchange(o)
    \/ \E b \in CloudBodies(cur.path) : Exchange(CloudReply(b))
    \/ Sleep
    \/ CloudLookupNext
    \/ CloudLookupReturn

SpecLookup == InitLocal /\ [][NextLookup]_vars

\* Two goroutines calling one cloud client.
NextShared ==
    \/ \E g \in Callers : SharedCall(g)
    \/ \E g \in Callers : SharedReadEnd(g)
    \/ \E g \in Callers, o \in SharedOutcomes : SharedExchange(g, o)
    \/ \E g \in Callers : SharedWriteEnd(g)

SpecShared == Init /\ [][NextShared]_vars

\* The places the two callers write to: one page by its title, the same
\* page or another one as a daily note, a block.
RaceLocations ==
    { MkLocation(<<>>, "January 2nd, 2026", "", "last"),
      MkLocation(<<>>, "", "01-02-2026", "last"),
      MkLocation(<<>>, "", "03-11-2026", "last"),
      MkLocation(<<"a", "b">>, "", "", "last") }

\* Two callers of CreateBlockAtLocation on one graph.
NextRace ==
    \/ \E g \in Callers, loc \in RaceLocations :
          RaceStart(g, loc, MkBlockOptions("c", <<>>))
    \/ \E g \in Callers : RaceEnter(g)
    \/ \E g \in Callers, applied \in BOOLEAN : RaceCall(g, applied)

\* Two callers on a machine where the app is running, or is not.
InitRace ==
    /\ InitCore
    /\ ParseIdle
    /\ portFile \in {PortFileWith(<<"8", "0">>), PortFileAbsent}
    /\ LocalIdle
    /\ CmdIdle
    /\ ConIdle

SpecRace == InitRace /\ [][NextRace]_vars

\* importWithBatch: the page is created in the batch or not, then the
\* blocks are added.
NextImport ==
    \/ /\ ret.op = "NewBatchBuilder"
       /\ CreatePage([Title |-> "T", UID |-> <<>>, ChildrenViewType |-> ""])
    \/ \E parent \in ImportParents, blocks \in Forests,
          order \in {"nil", "first", "last"} :
          BuildBatchBlocks(parent, blocks, order)

SpecImport == Init /\ [][NextImport]_vars

\* Locations with more than one addressing mode set.
MixedLocations ==
    { MkLocation(<<>>, "T", "01-02-2026", "last"),
      MkLocation(<<"a", "b">>, "T", "", "last"),
      MkLocation(<<"a", "b">>, "", "01-02-2026", "last"),
      MkLocation(<<"a", "b">>, "T", "01-02-2026", "last") }

\* A caller that creates a block at one Location through the local
\* client, through the batch builder and through the cloud client.
NextLocate ==
    \/ \E loc \in LocalLocations \cup MixedLocations :
          LocalCreateBlockAtLocation(loc, MkBlockOptions("c", <<>>))
    \/ LocalSend
    \/ \E o \in LocalOutcomes(lop.call.action) : LocalRecv(o)
    \/ /\ lop.method = "CreateBlockAtLocation"
       /\ CreateBlock(lop.loc, lop.opts)
    \/ /\ lop.method = "CreateBlockAtLocation"
       /\ ClientCreateBlockAtLocation(lop.loc, lop.opts)
    \/ \E o \in {x \in Outcomes : x.status \in {0, 200, 429}} : Exchange(o)
    \/ Sleep

InitLocate ==
    /\ InitCore
    /\ ParseIdle
    /\ portFile = PortFileWith(<<"8", "0">>)
    /\ LocalIdle
    /\ CmdIdle
    /\ ConIdle

SpecLocate == InitLocate /\ [][NextLocate]_vars

\* ---------------------------------------------------------------------
\* Properties of the batch builder (checked under Spec)
\* ---------------------------------------------------------------------

IsCreate(c) == c.op \in {"CreatePage", "CreateBlock"}

\* The uid a record carries.
RecordUID(a) == IF "page" \in DOMAIN a THEN a["page"]["uid"] ELSE a["block"]["uid"]

HasParentUID(a) == "location" \in DOMAIN a /\ "parent-uid" \in DOMAIN a["location"]

\* Whether the whole string is '-' followed by decimal digits that are not
\* all zero: the decimal form of a negative integer.
IsTempidString(str) ==
    /\ Len(str) >= 2
    /\ str[1] = "-"
    /\ \A i \in 2..Len(str) : IsDigit(str[i])
    /\ \E i \in 2..Len(str) : str[i] # "0"

TempidHandles ==
    << <<"-", "1">>, <<"-", "2">>, <<"-", "3">>, <<"-", "4">>, <<"-", "5">> >>

OnlyTempidCreates ==
    \A i \in 1..Len(calls) : IsCreate(calls[i]) /\ calls[i].uid = <<>>

\* C1: N consecutive Create* calls without explicit UID on a fresh builder
\* return the handles "-1", ..., "-N" in call order, and the k-th record
\* carries the integer -k as its uid.
C1_HandlesCountDown ==
    OnlyTempidCreates =>
        /\ Len(actions) = Len(calls)
        /\ \A k \in 1..Len(calls) :
              /\ calls[k].ret = TempidHandles[k]
              /\ RecordUID(actions[k]) = IntVal(0 - k)

C1_Witness ==
    /\ OnlyTempidCreates
    /\ Len(calls) >= 3
    /\ \E i, j \in 1..Len(calls) : calls[i].op = "CreatePage" /\ calls[j].op = "CreateBlock"

ExplicitCreateStep ==
    /\ Len(calls') = Len(calls) + 1
    /\ IsCreate(calls'[Len(calls')])
    /\ calls'[Len(calls')].uid # <<>>

\* C2: a Create* call with an explicit UID returns that UID and leaves the
\* tempid counter unchanged.
C2_ExplicitUIDKeepsCounter ==
    [][ExplicitCreateStep =>
          /\ ret'.val = calls'[Len(calls')].uid
          /\ nextTempID' = nextTempID]_vars

\* The tempid create whose handle is the given string, if any precedes i.
MintedBefore(i, str) ==
    { j \in 1..(i - 1) : IsCreate(calls[j]) /\ calls[j].uid = <<>> /\ calls[j].ret = str }

\* C3: a handle returned by an earlier Create* call, passed as
\* Location.ParentUID to CreateBlock or MoveBlock, is emitted as that
\* tempid integer; a parent UID that is not a tempid handle is emitted as
\* the same string.
C3_ParentUIDConversion ==
    \A i \in 1..Len(calls) :
        (calls[i].op \in {"CreateBlock", "MoveBlock"} /\ calls[i].parent # <<>>) =>
            /\ \A j \in MintedBefore(i, calls[i].parent) :
                  actions[i]["location"]["parent-uid"] = IntVal(0 - j)
            /\ ~IsTempidString(calls[i].parent) =>
                  actions[i]["location"]["parent-uid"] = StrVal(calls[i].parent)

RefOps == {"UpdateBlock", "UpdatePage", "MoveBlock", "DeleteBlock", "DeletePage"}

\* C4: the uid of update, move and delete records and the location
\* parent-uid are integers only when the whole UID string is the decimal
\* form of a negative integer; every other UID string is emitted unchanged.
C4_OnlyWholeNegativeDecimals ==
    \A i \in 1..Len(calls) :
        /\ calls[i].op \in RefOps =>
              IF IsTempidString(calls[i].uid)
              THEN RecordUID(actions[i]).kind = "int"
              ELSE RecordUID(actions[i]) = StrVal(calls[i].uid)
        /\ HasParentUID(actions[i]) =>
              IF IsTempidString(calls[i].parent)
              THEN actions[i]["location"]["parent-uid"].kind = "int"
              ELSE actions[i]["location"]["parent-uid"] = StrVal(calls[i].parent)

\* The integer tempids a record refers to.
IntRefs(a) ==
    (IF a["action"] \notin {"create-page", "create-block"} /\ RecordUID(a).kind = "int"
     THEN {RecordUID(a)} ELSE {})
    \cup (IF HasParentUID(a) /\ a["location"]["parent-uid"].kind = "int"
          THEN {a["location"]["parent-uid"]} ELSE {})

RefsPointBack ==
    \A i \in 1..Len(actions) : \A v \in IntRefs(actions[i]) :
        \E j \in 1..(i - 1) :
            /\ actions[j]["action"] \in {"create-page", "create-block"}
            /\ RecordUID(actions[j]) = v

\* C5 as stated: after any sequence of builder calls every integer tempid
\* reference is the uid minted by a create record earlier in the list.
C5_RefsPointBackAlways == RefsPointBack

\* The UID strings call i passes for conversion.
RefArgs(c) ==
    (IF c.op \in RefOps THEN {c.uid} ELSE {}) \cup (IF c.parent # <<>> THEN {c.parent} ELSE {})

\* Every UID string the builder converts to an integer is the handle an
\* earlier Create* call without explicit UID returned.
OnlyMintedHandles ==
    \A i \in 1..Len(calls) : \A str \in RefArgs(calls[i]) :
        parseUID(str).kind = "int" => MintedBefore(i, str) # {}

\* C5 amended: when every UID string the builder converts to an integer is
\* a handle returned by an earlier Create* call made without explicit UID,
\* every integer tempid reference is the uid minted by a create record
\* earlier in the list.
C5_RefsPointBackForHandles == OnlyMintedHandles => RefsPointBack

C5_Witness ==
    /\ OnlyMintedHandles
    /\ Len(actions) >= 3
    /\ IntRefs(actions[2]) # {}
    /\ \E v \in IntRefs(actions[3]) : v = IntVal(-2)

\* The i-th record comes from the i-th call.
ActionName(op) ==
    CASE op = "CreatePage" -> "create-page"
      [] op = "CreateBlock" -> "create-block"
      [] op = "UpdateBlock" -> "update-block"
      [] op = "UpdatePage" -> "update-page"
      [] op = "MoveBlock" -> "move-block"
      [] op = "DeleteBlock" -> "delete-block"
      [] op = "DeletePage" -> "delete-page"

InCallOrder ==
    /\ Len(actions) = Len(calls)
    /\ \A i \in 1..Len(calls) : actions[i]["action"] = ActionName(calls[i].op)

\* C6: every builder call appends exactly one record and leaves the earlier
\* records unchanged; Build returns the records in call order and changes
\* neither the list nor the tempid counter.
C6_AppendOnly ==
    [][/\ InCallOrder'
       /\ IF calls' = calls
          THEN /\ ret'.op = "Build"
               /\ ret'.val = actions
               /\ actions' = actions
               /\ nextTempID' = nextTempID
          ELSE /\ Len(actions') = Len(actions) + 1
               /\ SubSeq(actions', 1, Len(actions)) = actions]_vars

C6_Witness ==
    /\ ret.op = "Build"
    /\ Len(ret.val) >= 3
    /\ ret.val = actions

\* ---------------------------------------------------------------------
\* Properties of the cloud client (checked under SpecCloud)
\* ---------------------------------------------------------------------

Is429(o) == o.kind = "response" /\ o.status = 429

All429 == \A i \in 1..Len(outcomes) : Is429(outcomes[i])

Nr429 == Cardinality({ i \in 1..Len(outcomes) : Is429(outcomes[i]) })

\* The calls of c.call made so far by callWithRetry: every exchange that
\* was not a followed redirect ended one.
NrAttempts == Len(outcomes) - NrFollowed(outcomes)

\* C7: ExecuteBatch sends the batch as a write request with action
\* "batch-actions" and the records of Build() in order, never as separate
\* writes, and as exactly one request when no rate limit or redirect
\* response occurs.
C7_OneBatchRequest ==
    cur.method = "ExecuteBatch" =>
        /\ \A i \in 1..Len(requests) :
              /\ requests[i].path = <<"/api/graph/", "g", "/", "write">>
              /\ DOMAIN requests[i].body = {"action", "actions"}
              /\ requests[i].body["action"] = "batch-actions"
              /\ requests[i].body["actions"] = actions
        /\ (pc = "done" /\ \A i \in 1..Len(outcomes) :
                              ~Is429(outcomes[i]) /\ ~IsRedirect(outcomes[i]))
              => Len(requests) = 1

C7_Witness ==
    /\ cur.method = "ExecuteBatch"
    /\ pc = "done"
    /\ result.err = "none"
    /\ Len(requests) = 1
    /\ Len(actions) = 2
    /\ actions[1]["action"] = "create-page"
    /\ actions[2]["action"] = "create-block"
    /\ actions[2]["location"]["parent-uid"] = IntVal(-1)

\* C8: when every response is 429 the call makes exactly 4 HTTP attempts
\* and then returns RateLimitError: never a fifth attempt, never a return
\* before the fourth.
C8_FourAttemptsOn429 ==
    (cur.method # "" /\ All429) =>
        /\ Len(requests) <= 4
        /\ pc = "done" => (Len(requests) = 4 /\ result.err = "RateLimit")
        /\ pc # "done" => result = Pending

C8_Witness ==
    /\ pc = "done"
    /\ All429
    /\ Len(requests) = 4
    /\ result.err = "RateLimit"
    /\ cur.method = "Query"

RECURSIVE SumSeq(_)
SumSeq(q) == IF q = <<>> THEN 0 ELSE Head(q) + SumSeq(Tail(q))

\* C9: the sleeps between attempts are 10s, 20s, 40s; a call that exhausts
\* its retries has slept 70s in all; no sleep follows the final attempt.
C9_BackoffSchedule ==
    /\ Len(sleeps) <= 3
    /\ sleeps = SubSeq(<<10, 20, 40>>, 1, Len(sleeps))
    /\ pc = "call" => Len(sleeps) = Nr429
    /\ pc = "done" =>
          /\ Len(sleeps) = NrAttempts - 1
          /\ Nr429 = 4 => (sleeps = <<10, 20, 40>> /\ SumSeq(sleeps) = 70)

C9_Witness ==
    /\ pc = "done"
    /\ Nr429 = 4
    /\ sleeps = <<10, 20, 40>>

\* C10: an attempt that fails with anything but RateLimit ends the call
\* with that error, with no sleep and no further attempt; the first attempt
\* that succeeds ends the call with its response.
C10_RetryOnlyRateLimit ==
    \A i \in 1..Len(outcomes) :
        (~Is429(outcomes[i]) /\ ~IsFollowed(outcomes[i])) =>
            /\ i = Len(outcomes)
            /\ pc = "done"
            /\ result = callCtxResult(outcomes[i])
            /\ Len(sleeps) = Nr429
            /\ outcomes[i].status = 200 <=> result.err = "none"
            /\ outcomes[i].status = 200 => result.body = outcomes[i].body

C10_Witness ==
    /\ pc = "done"
    /\ Len(outcomes) = 2
    /\ Is429(outcomes[1])
    /\ outcomes[2].status = 500
    /\ result.err = "generic"
    /\ sleeps = <<10>>

PeerURLs ==
    { <<"https://", "peer-1", ".api.roamresearch.com:", "3001">>,
      <<"https://", "peer-2", ".api.roamresearch.com:", "3002">> }

FirstRequestStep == Len(requests) = 0 /\ Len(requests') = 1

FollowStep == Len(outcomes') = Len(outcomes) + 1 /\ IsFollowed(outcomes'[Len(outcomes')])

\* C11: once a peer redirect has been followed the cache holds the peer
\* base URL https://{peer}.api.roamresearch.com:{port}, the entry is never
\* removed, and every later call sends its first request to that URL, not
\* to the original base URL.
C11_CachedPeerReused ==
    [][/\ FollowStep =>
             LET l == outcomes'[Len(outcomes')].location
             IN  redirectCache'[GraphName] =
                     <<"https://", l.peer, ".api.roamresearch.com:", l.port>>
       /\ GraphName \in DOMAIN redirectCache =>
             /\ GraphName \in DOMAIN redirectCache'
             /\ redirectCache[GraphName] \in PeerURLs
             /\ ~FollowStep => redirectCache' = redirectCache
             /\ FirstRequestStep =>
                   /\ requests'[1].url = redirectCache[GraphName]
                   /\ requests'[1].url # DefaultBaseURL]_vars

C11_Witness ==
    /\ ncalls = 2
    /\ pc = "done"
    /\ result.err = "none"
    /\ Len(requests) = 1
    /\ requests[1].url = <<"https://", "peer-1", ".api.roamresearch.com:", "3001">>

\* C12: a single cloud call issues at most two HTTP requests on account of
\* redirect handling: without rate limiting, the first request and one
\* retry against the rewritten URL.
C12_OneRedirectRetry ==
    Nr429 = 0 => Len(requests) <= 2

\* C13: a non-redirect response is classified by its status alone.
C13_StatusClassification ==
    (Len(outcomes) >= 1 /\ outcomes[Len(outcomes)].kind = "response"
        /\ ~IsRedirect(outcomes[Len(outcomes)])) =>
        LET o == outcomes[Len(outcomes)]
        IN  CASE o.status = 200 ->
                   pc = "done" /\ result = [err |-> "none", msg |-> "", body |-> o.body]
              [] o.status = 401 ->
                   pc = "done" /\ result.err = "Authentication"
              [] o.status = 429 ->
                   pc \in {"sleep", "call"} \/ (pc = "done" /\ result.err = "RateLimit")
              [] o.status = 400 ->
                   pc = "done" /\ result.err = "Validation"
              [] o.status = 500 ->
                   /\ pc = "done"
                   /\ result.err = "generic"
                   /\ result.msg = <<"server error: ", o.body>>
              [] OTHER ->
                   /\ pc = "done"
                   /\ result.err = "generic"
                   /\ result.msg = <<"API error (status ", o.status, "): ", o.body>>

C13_Witness ==
    /\ pc = "done"
    /\ Len(outcomes) = 1
    /\ outcomes[1].status = 503
    /\ result.err = "generic"
    /\ result.msg = <<"API error (status ", 503, "): ", "b">>


(***************************************************************************)
(* Claims about parseLocalCreateUID, checked under SpecParse.              *)
(***************************************************************************)
ShapeString(raw) == raw.t = "str" /\ raw.s # <<>>

ShapeUID(raw) == raw.t = "obj" /\ HasStr(raw.o, "uid")

ShapeBlockUID(raw) == raw.t = "obj" /\ HasStr(raw.o, "block/uid")

ShapeNestedUID(raw) ==
    raw.t = "obj" /\ HasObj(raw.o, "block") /\ HasStr(raw.o["block"].o, "uid")

ShapeNestedBlockUID(raw) ==
    /\ raw.t = "obj"
    /\ HasObj(raw.o, "block")
    /\ HasStr(raw.o["block"].o, "block/uid")

FirstOfFourShapes(raw) ==
    IF ShapeString(raw) THEN Parsed(raw.s)
    ELSE IF ShapeUID(raw) THEN Parsed(raw.o["uid"].s)
    ELSE IF ShapeBlockUID(raw) THEN Parsed(raw.o["block/uid"].s)
    ELSE IF ShapeNestedUID(raw) THEN Parsed(raw.o["block"].o["uid"].s)
    ELSE NotParsed

\* C18 as stated: the parser accepts a bare non-empty string, {"uid"},
\* {"block/uid"} and {"block": {"uid"}}, the first match winning, and
\* returns ("", false) for every other result.
C18_FourShapes ==
    parseOut # <<>> => parseOut[1] = FirstOfFourShapes(parseIn)

\* C18 amended: the parser accepts those four shapes and, after them,
\* {"block": {"block/uid"}}; the first match wins and any other result,
\* invalid JSON included, gives ("", false).
C18_FiveShapes ==
    parseOut # <<>> =>
        parseOut[1] =
            IF FirstOfFourShapes(parseIn).ok THEN FirstOfFourShapes(parseIn)
            ELSE IF ShapeNestedBlockUID(parseIn)
            THEN Parsed(parseIn.o["block"].o["block/uid"].s)
            ELSE NotParsed

C18_Witness ==
    /\ parseOut = <<Parsed(<<"N", "B", "U">>)>>
    /\ "uid" \in DOMAIN parseIn.o
    /\ "block/uid" \in DOMAIN parseIn.o
    /\ "uid" \in DOMAIN parseIn.o["block"].o

(***************************************************************************)
(* Claims about the local transport, checked under SpecLocal.              *)
(***************************************************************************)

\* LocalClient.Call has returned after one exchange with the Local API.
CallAnswered ==
    /\ lop.method = "Call"
    /\ lpc = "done"
    /\ Len(louts) = 1
    /\ louts[1].kind = "response"

StatusMessage(o) == <<"local API error (status ", o.status, ")">>

StatusBodyMessage(o) == <<"local API error (status ", o.status, "): ", o.body>>

PortDiscovered == lop.method = "Call" /\ lpc \in {"wait", "done"}

PortText == TrimSpace(portFile.data)

IsIntegerText(str) ==
    LET digits == IF str # <<>> /\ Head(str) \in {"+", "-"} THEN Tail(str) ELSE str
    IN  digits # <<>> /\ \A i \in 1..Len(digits) : IsDigit(digits[i])

NamesRemedy(msg) ==
    \E i \in 1..Len(msg) :
        msg[i] = " not found. Start Roam and enable 'Encrypted local API' in settings."

\* No request went out and the call returned the discovery error.
FailedBeforeRequest ==
    /\ lreqs = <<>>
    /\ lpc = "done"
    /\ lresult = LErr(lop.port.err, lop.port.msg)

AbsentOutcome ==
    /\ lop.port.err = "DesktopNotRunning"
    /\ NamesRemedy(lop.port.msg)
    /\ FailedBeforeRequest

InvalidOutcome ==
    /\ lop.port = PortErr("generic", <<"invalid port in ", PortFileName, ": ", PortText>>)
    /\ FailedBeforeRequest

\* C15 as stated: discovery has exactly three outcomes.  File absent gives
\* DesktopNotRunningError naming the remedy; a file whose trimmed content
\* is not an integer gives a generic invalid-port error; otherwise the
\* integer port.  The error cases send no HTTP request.
C15_ThreeOutcomes ==
    PortDiscovered =>
        IF portFile.state = "absent" THEN AbsentOutcome
        ELSE IF portFile.state = "present" /\ ~IsIntegerText(PortText) THEN InvalidOutcome
        ELSE lop.port.err = "none"

\* C15 amended: discovery has five outcomes, decided before any request is
\* sent: home directory unknown gives a generic error; file absent gives
\* DesktopNotRunningError naming the remedy; a file that exists but cannot
\* be read gives a generic read error; a file whose trimmed content is not
\* an optionally signed decimal integer gives a generic invalid-port error
\* quoting the trimmed content; otherwise that integer is the port of the
\* request.  In the four error cases the call sends no request and returns
\* the error.
C15_FiveOutcomes ==
    PortDiscovered =>
        CASE portFile.state = "nohome"
               -> /\ lop.port = PortErr("generic", <<"failed to get home directory">>)
                  /\ FailedBeforeRequest
          [] portFile.state = "absent" -> AbsentOutcome
          [] portFile.state = "unreadable"
               -> /\ lop.port = PortErr("generic", <<"failed to read port file ", PortFileName>>)
                  /\ FailedBeforeRequest
          [] portFile.state = "present" /\ ~IsIntegerText(PortText) -> InvalidOutcome
          [] OTHER
               -> /\ lop.port.err = "none"
                  /\ lop.port.port = Atoi(PortText).n
                  /\ \A i \in 1..Len(lreqs) : lreqs[i].port = lop.port.port

C15_Witness ==
    /\ PortDiscovered
    /\ portFile.data = <<" ", "8", "0", " ", "\n", "\n">>
    /\ Len(lreqs) = 1
    /\ lreqs[1].port = 80

\* CreateBlockAtLocation is running or has run on a location that names
\* its page by title or by date.
ByTitleOrDate ==
    /\ lop.method = "CreateBlockAtLocation"
    /\ lop.loc.ParentUID = <<>>
    /\ lop.loc.PageTitle # "" \/ lop.loc.DailyNoteDate # ""

RequestsOf(action) == { i \in 1..Len(lreqs) : lreqs[i].action = action }

\* What LocalClient.Query made of the answer to request i.
QueryAnswer(i) == QueryReturn(localCallResult(louts[i]))

AnsweredUID(i) ==
    /\ i \in 1..Len(louts)
    /\ lreqs[i].action = "data.q"
    /\ QueryAnswer(i).err = "none"
    /\ firstUID(QueryAnswer(i).val).kind = "uid"

AnsweredNone(i) ==
    /\ i \in 1..Len(louts)
    /\ lreqs[i].action = "data.q"
    /\ QueryAnswer(i).err = "none"
    /\ firstUID(QueryAnswer(i).val).kind = "none"

IsTitleQuery(i) ==
    /\ lreqs[i].action = "data.q"
    /\ lreqs[i].args = TitleQuery(lop.title).args

\* The caller is past the step that follows the answer to request i.
MovedOnFrom(i) == lpc = "done" \/ Len(lreqs) > i

\* C17: with page_title or daily_note_date set, the title query goes first;
\* data.block.create goes out only right after a query that returned a UID,
\* with that UID as parent-uid and with order, and with no page-title; a
\* first query that returns a UID leads to no page create; one that returns
\* none leads to exactly one data.page.create and then the same query
\* again; a re-query that returns none ends the call with an error and no
\* data.block.create.
C17_ResolveBeforeCreate ==
    ByTitleOrDate =>
        /\ Len(lreqs) >= 1 => IsTitleQuery(1)
        /\ \A i \in RequestsOf("data.block.create") :
              /\ i = Len(lreqs)
              /\ AnsweredUID(i - 1)
              /\ DOMAIN lreqs[i].args.location = {"parent-uid", "order"}
              /\ lreqs[i].args.location["parent-uid"] = firstUID(QueryAnswer(i - 1).val).uid
              /\ lreqs[i].args.location["order"] = lop.loc.Order
        /\ AnsweredUID(1) => RequestsOf("data.page.create") = {}
        /\ (AnsweredNone(1) /\ MovedOnFrom(1))
              => /\ RequestsOf("data.page.create") = {2}
                 /\ lreqs[2].args.page.title = lop.title
        /\ (AnsweredNone(1) /\ Len(louts) >= 2 /\ localCallResult(louts[2]).err = "none"
              /\ MovedOnFrom(2))
              => IsTitleQuery(3)
        /\ RequestsOf("data.q") \subseteq {1, 3}
        /\ (AnsweredNone(3) /\ MovedOnFrom(3))
              => /\ lpc = "done"
                 /\ lresult.err # "none"
                 /\ RequestsOf("data.block.create") = {}

C17_Witness ==
    /\ ByTitleOrDate
    /\ lop.loc.DailyNoteDate = "03-11-2026"
    /\ lop.title = <<"March", " ", "1", "1", "th", ", ", "2", "0", "2", "6">>
    /\ lpc = "done"
    /\ lresult.err = "none"
    /\ Len(lreqs) = 4
    /\ AnsweredNone(1)
    /\ AnsweredUID(3)
    /\ lreqs[4].action = "data.block.create"

(***************************************************************************)
(* Claims about the local ExecuteBatch, checked under SpecLocalBatch.      *)
(***************************************************************************)
BatchRun == lop.method = "ExecuteBatch"

BatchSucceeded == BatchRun /\ lpc = "done" /\ lresult.err = "none"

\* The Local API action a record of each type is replayed as.
SingleActionOf(a) ==
    CASE a.action = "create-page" -> "data.page.create"
      [] a.action = "create-block" -> "data.block.create"
      [] a.action = "update-block" -> "data.block.update"
      [] a.action = "move-block" -> "data.block.move"
      [] a.action = "delete-block" -> "data.block.delete"
      [] a.action = "delete-page" -> "data.page.delete"
      [] OTHER -> "none"

\* C19: a local ExecuteBatch that succeeds has made exactly one call per
\* record, the call for record i being the i-th; at every moment at most
\* one call is outstanding and every earlier call has returned success;
\* the batch [create-page, create-block] makes exactly data.page.create,
\* then data.block.create.
C19_OneCallPerRecordInOrder ==
    BatchRun =>
        /\ lop.batch = actions
        /\ Len(louts) <= Len(lreqs)
        /\ Len(lreqs) <= Len(louts) + 1
        /\ Len(lreqs) <= Len(lop.batch)
        /\ \A i \in 1..Len(lreqs) :
              /\ lreqs[i].action = SingleActionOf(lop.batch[i])
              /\ i < Len(lreqs) => localCallResult(louts[i]).err = "none"
        /\ BatchSucceeded => Len(lreqs) = Len(lop.batch)
        /\ (BatchSucceeded /\ Len(actions) = 2 /\ actions[1].action = "create-page"
              /\ actions[2].action = "create-block")
              => [i \in 1..Len(lreqs) |-> lreqs[i].action]
                     = <<"data.page.create", "data.block.create">>

C19_Witness ==
    /\ BatchSucceeded
    /\ Len(actions) = 2
    /\ actions[1].action = "create-page"
    /\ actions[2].action = "create-block"
    /\ Len(lreqs) = 2
    /\ Len(louts) = 2

\* The batch is [create-page, create-block under the handle of that page]
\* and the call for the block has gone out.
PageThenChildReplayed ==
    /\ BatchRun
    /\ Len(lop.batch) >= 2
    /\ lop.batch[1].action = "create-page"
    /\ lop.batch[2].action = "create-block"
    /\ lop.batch[1].page.uid.kind = "int"
    /\ HasParentUID(lop.batch[2])
    /\ lop.batch[2].location["parent-uid"] = lop.batch[1].page.uid
    /\ Len(lreqs) >= 2

\* C20: in the batch [create-page, create-block whose ParentUID is the
\* page's handle] the second call's parent UID is the real UID the first
\* call returned, never a tempid or the empty string.
C20_ParentIsRealUID ==
    PageThenChildReplayed =>
        /\ parseLocalCreateUID(louts[1].result).ok
        /\ lreqs[2].args.location["parent-uid"] = parseLocalCreateUID(louts[1].result).uid
        /\ lreqs[2].args.location["parent-uid"] # <<>>

(***************************************************************************)
(* Claims about the commands, checked under SpecCmd.                       *)
(***************************************************************************)
TimedOutWrites ==
    { i \in 1..Len(cmdLog) : cmdLog[i].ev = "write" /\ IsResponseTimeout(cmdLog[i].r) }

VerifiedAfter(i) ==
    /\ i + 2 <= Len(cmdLog)
    /\ cmdLog[i + 1].ev = "sleep-500ms"
    /\ cmdLog[i + 2].ev = "verify-query"

\* C16: a command that returns an error has, for every write of its that
\* came back with "Response timeout", waited 500ms and issued a
\* verification query right after that write.
C16_VerifyBeforeSurfacing ==
    (cmdPc = "done" /\ cmdResult.err # "none") =>
        \A i \in TimedOutWrites : VerifiedAfter(i)

BatchFailed == BatchRun /\ lpc = "done" /\ lresult.err # "none"

\* Record i of the batch in progress is one the switch rejects.
IsMalformed(i) == ~batchDispatch(lop.batch[i], i - 1).ok

NamesIndex(msg, i) == Len(msg) >= 2 /\ msg[1] = "batch action " /\ msg[2] = i

\* C22: every error local ExecuteBatch returns names the 0-based index of
\* the failing record, whether its call failed or the record is malformed.
C22_ErrorNamesIndex ==
    BatchFailed => NamesIndex(lresult.msg, lop.idx - 1)

LocalLookupRun == lop.method \in {"GetPageByTitle", "GetBlockByUID"}

\* What the lookup's data.q call returned to LocalClient.Query: the error
\* met before any request, or what was made of the first response.
LocalLookupQuery ==
    IF Len(louts) = 0 THEN localCallStart(portFile).r
    ELSE QueryReturn(localCallResult(louts[1]))

\* The cells are there for results[0][0].
HasFirstCell(rows) == Len(rows) > 0 /\ Len(rows[1]) > 0

\* A finished lookup on the local transport.
C23_Local ==
    LocalLookupRun /\ lpc = "done" =>
        LET q == LocalLookupQuery
            rows == queryRows(q.val).rows
        IN  /\ Len(lreqs) > 0 =>
                /\ lreqs[1].action = "data.q"
                /\ lreqs[1].args = LookupQuery(lop.method, lop.title)
            /\ q.err # "none" => Len(lreqs) <= 1 /\ lresult = q
            /\ q.err = "none" /\ Len(rows) = 0 =>
                /\ Len(lreqs) = 1
                /\ lresult = LErr("NotFound", NotFoundMessage(lop.method, lop.title))
            /\ q.err = "none" /\ HasFirstCell(rows) =>
                /\ Len(lreqs) = 2
                /\ lreqs[2].action = "data.pull"
                /\ lreqs[2].args = <<PullSelector, rows[1][1]>>
                /\ lresult = localCallResult(louts[2])
            /\ lresult.err = "NotFound" => q.err = "none" /\ Len(rows) = 0

\* A finished lookup on the cloud transport: a NotFoundError comes after
\* the query alone, and no lookup makes more than two calls.
C23_CloudReturned ==
    pc = "returned" =>
        /\ ncalls \in {1, 2}
        /\ ncalls = 1 <=> cur.path = GraphPath("q")
        /\ ncalls = 2 <=> cur.path = GraphPath("pull")
        /\ result.err = "NotFound" => ncalls = 1

\* One step of a lookup on the cloud transport, from the return of its
\* query or of its pull.
C23_CloudStep ==
    /\ pc = "done" /\ cur.path = GraphPath("q") =>
         LET q == clientQueryReturn(result)
         IN  /\ q.err # "none" =>
                  pc' = "returned" /\ result' = q /\ ncalls' = ncalls
             /\ q.err = "none" /\ Len(q.body) = 0 =>
                  /\ pc' = "returned"
                  /\ result' = Err("NotFound",
                                   NotFoundMessage(cur.method[1], cur.method[2]))
                  /\ ncalls' = ncalls
             /\ q.err = "none" /\ HasFirstCell(q.body) =>
                  /\ pc' = "call"
                  /\ ncalls' = ncalls + 1
                  /\ cur'.path = GraphPath("pull")
                  /\ cur'.body = [eid |-> q.body[1][1], selector |-> PullSelector]
    /\ pc = "done" /\ cur.path = GraphPath("pull") =>
         pc' = "returned" /\ result' = clientPullReturn(result) /\ ncalls' = ncalls
    /\ result'.err = "NotFound" /\ result.err # "NotFound" =>
         /\ pc = "done"
         /\ cur.path = GraphPath("q")
         /\ clientQueryReturn(result).err = "none"
         /\ Len(clientQueryReturn(result).body) = 0

\* C23: GetPageByTitle and GetBlockByUID, on both transports, issue the
\* lookup query first; on zero rows they return NotFoundError and issue no
\* pull; on rows they issue one pull on the first row's entity id and
\* return its result; an error of the query or of the pull is returned as
\* it is, and NotFoundError arises in no other way.
C23_QueryThenPull ==
    /\ [](C23_Local /\ C23_CloudReturned)
    /\ [][C23_CloudStep]_vars

\* Both outcomes on the local transport ...
C23_WitnessLocalNotFound ==
    /\ LocalLookupRun
    /\ lpc = "done"
    /\ lresult.err = "NotFound"
    /\ Len(lreqs) = 1

C23_WitnessLocalPull ==
    /\ LocalLookupRun
    /\ lpc = "done"
    /\ lresult.err = "none"
    /\ Len(lreqs) = 2
    /\ lreqs[2].action = "data.pull"

\* ... and a pull of the first row's entity id on the cloud transport.
C23_Witness ==
    /\ pc = "returned"
    /\ ncalls = 2
    /\ result.err = "none"
    /\ cur.body.eid = JStr(<<"p", "1">>)

\* C24: on a client shared by concurrent callers the accesses to the
\* redirect cache are synchronized: a write of the cache by one call never
\* overlaps a read or a write of it by another call.
C24_CacheSynchronized ==
    \A g \in Callers :
        gpc[g] = "write" => gpc[Other(g)] \notin {"read", "write"}

\* The create-page requests sent for a title.
PageCreates(title) ==
    { i \in 1..Len(glog) : /\ glog[i].action = "data.page.create"
                           /\ glog[i].args.page.title = title }

\* C25: the local get-or-create of a page by title is not guarded against
\* races: no call of one caller ever waits for the other caller, whatever
\* the other is doing, so two callers resolving one missing title can both
\* see no rows and both send data.page.create.
C25_GetOrCreateUnguarded ==
    \A g \in Callers :
        gpc[g] = "call" => ENABLED RaceEnter(g)

\* Both callers have sent data.page.create for the one title, each after
\* a query that found no page, and the graph holds the page twice.
C25_Witness ==
    \E t \in {<<"January 2nd, 2026">>} :
        /\ \A g \in Callers : gop[g].op.title = t
        /\ \A g \in Callers : \E i \in PageCreates(t) : glog[i].caller = g
        /\ Cardinality(PageCreates(t)) = 2
        /\ Len(PagesFound(graph, TitleQuery(t).args)) = 2
        /\ glog[1].action = "data.q"
        /\ glog[2].action = "data.q"

\* The verification query made for the write logged at i came back with
\* at least one row.
VerifiedWithRows(i) ==
    /\ VerifiedAfter(i)
    /\ cmdLog[i + 2].r.err = "none"
    /\ Len(queryRows(cmdLog[i + 2].r.val).rows) > 0

\* The command's own write: the first write it logs.
MainWrite == CHOOSE i \in 1..Len(cmdLog) :
                 cmdLog[i].ev = "write" /\ \A j \in 1..(i - 1) : cmdLog[j].ev # "write"

MainWriteTimedOut ==
    /\ cmdPc = "done"
    /\ \E i \in 1..Len(cmdLog) : cmdLog[i].ev = "write"
    /\ MainWrite \in TimedOutWrites

RECURSIVE ForestSize(_)
ForestSize(blocks) ==
    IF blocks = <<>> THEN 0
    ELSE 1 + ForestSize(Head(blocks).Children) + ForestSize(Tail(blocks))

\* The blocks of a forest in pre-order, each with the position of its
\* parent in that order (0 for a top-level block).
RECURSIVE Preorder(_, _, _)
Preorder(blocks, parent, offset) ==
    IF blocks = <<>> THEN <<>>
    ELSE <<[content |-> Head(blocks).Content, parent |-> parent]>>
         \o Preorder(Head(blocks).Children, offset + 1, offset + 1)
         \o Preorder(Tail(blocks), parent,
                     offset + 1 + ForestSize(Head(blocks).Children))

\* The parent UID handed to buildBatchBlocks as a record carries it: the
\* tempid for a handle, the string itself otherwise.
GivenParent ==
    IF \E j \in 1..Len(TempidHandles) : TempidHandles[j] = ret.parent
    THEN IntVal(0 - (CHOOSE j \in 1..Len(TempidHandles) : TempidHandles[j] = ret.parent))
    ELSE StrVal(ret.parent)

\* C27: buildBatchBlocks adds one create-block action per block, in
\* pre-order, and returns their number; a top-level block's parent-uid is
\* the given parent UID and a child's parent-uid is the integer tempid
\* minted for its parent block.
C27_OneActionPerBlockPreorder ==
    ret.op = "buildBatchBlocks" =>
        LET nodes == Preorder(ret.blocks, 0, 0)
        IN  /\ ret.val = Len(nodes)
            /\ Len(actions) = ret.base + Len(nodes)
            /\ \A k \in 1..Len(nodes) :
                  LET a == actions[ret.base + k]
                  IN  /\ a.action = "create-block"
                      /\ a.block.string = nodes[k].content
                      /\ a.location["parent-uid"] =
                            IF nodes[k].parent = 0 THEN GivenParent
                            ELSE actions[ret.base + nodes[k].parent].block.uid
                      /\ nodes[k].parent # 0 => a.location["parent-uid"].kind = "int"

\* The same for the parents that are a plain UID or a handle.
C27_ExceptDashDigitParent ==
    ret.op = "buildBatchBlocks" /\ ret.parent # <<"-", "1", "a">> =>
        C27_OneActionPerBlockPreorder

\* The record lacks a field its case of the switch asks for: a uid or a
\* parent-uid that is a string.
LacksField(a) ==
    \/ "block" \in DOMAIN a /\ ~IsGoString(a.block, "uid")
    \/ "page" \in DOMAIN a /\ ~IsGoString(a.page, "uid")
    \/ "location" \in DOMAIN a /\ ~IsGoString(a.location, "parent-uid")

\* C28: every action type the builder emits is dispatched by local
\* ExecuteBatch to a single-action call: a record of the builder is
\* rejected only for a field it lacks, never for its action type.
C28_EveryTypeDispatched ==
    BatchFailed /\ IsMalformed(lop.idx) => LacksField(lop.batch[lop.idx])

\* No uid and no parent-uid of the batch is a tempid, except the uid a
\* create record mints for itself.
NoTempidRefs(batch) ==
    \A i \in 1..Len(batch) :
        /\ "location" \in DOMAIN batch[i] /\ "parent-uid" \in DOMAIN batch[i].location
              => batch[i].location["parent-uid"].kind = "str"
        /\ batch[i].action \notin {"create-page", "create-block"}
              => \A f \in {"block", "page"} :
                    f \in DOMAIN batch[i] => batch[i][f].uid.kind = "str"

\* The properties of record a under key f, other than a minted uid, are
\* exactly those of the call's arguments under f.
CarriesExactly(args, a, f) ==
    LET given == { k \in DOMAIN a[f] : ~(k = "uid" /\ a[f].uid.kind = "int") }
    IN  /\ DOMAIN args[f] = given
        /\ \A k \in given \ {"uid", "title"} : args[f][k] = a[f][k]
        /\ "uid" \in given => args[f].uid = a[f].uid.s
        /\ "title" \in given => args[f].title = <<a[f].title>>

\* C29: for a batch without tempid references, each call local
\* ExecuteBatch makes carries exactly the uid and the properties of its
\* record: nothing dropped, nothing added.
C29_CallsCarryTheRecords ==
    BatchRun /\ NoTempidRefs(lop.batch) =>
        \A j \in 1..Len(lreqs) :
            \A f \in {"block", "page"} :
                f \in DOMAIN lop.batch[j] => CarriesExactly(lreqs[j].args, lop.batch[j], f)

\* The addressing mode a serialized location selects, for the Location
\* loc it was made from.
MapMode(m, loc) ==
    IF "parent-uid" \in DOMAIN m THEN "parent"
    ELSE IF "page-title" \notin DOMAIN m THEN "none"
    ELSE IF ToString(m["page-title"]) = ToString(loc.PageTitle) THEN "title"
    ELSE "daily"

\* The addressing mode the local CreateBlockAtLocation in progress
\* selected: the title it looks up, or the error it returned at once.
LocalMode ==
    IF lop.title # <<>>
    THEN IF lop.title = <<lop.loc.PageTitle>> THEN "title" ELSE "daily"
    ELSE IF lresult.err = "generic" /\ lreqs = <<>> /\ lop.stage = "returned"
    THEN IF lop.loc.DailyNoteDate # "" THEN "daily" ELSE "none"
    ELSE "parent"

\* C30: the batch builder's buildLocation, the cloud serialization
\* (Location.ToMap) and the local resolveLocationToParentUID select the
\* same addressing mode for one Location, also for a Location with more
\* than one mode set.
C30_SameAddressingMode ==
    lop.method = "CreateBlockAtLocation" =>
        /\ \A i \in 1..Len(actions) :
              MapMode(actions[i].location, lop.loc) = LocalMode
        /\ pc # "idle" => MapMode(cur.body.location, lop.loc) = LocalMode

====
